---------------------------- MODULE Spec2Model ----------------------------
(***************************************************************************)
(* A model of the volsurfer core: the parametric volatility surface        *)
(* (src/app/src/vol_surface.py), the Stock/Option pricing adapter          *)
(* (src/app/src/contracts.py) and the Portfolio aggregation, evolution and *)
(* grid engine (src/app/src/portfolio.py).                                 *)
(*                                                                         *)
(* Numbers.  Python floats are modelled as exact rationals <<n, d>> in     *)
(* lowest terms with d > 0; floating-point rounding is not modelled.       *)
(* The Black-Scholes price and the four Greeks come from py_vollib, which  *)
(* is outside the repository: they are deterministic stand-in functions of *)
(* the six arguments the code passes, and on degenerate arguments (t = 0   *)
(* or sigma <= 0) the primitive may either return or raise.                *)
(***************************************************************************)
EXTENDS Integers, Sequences, FiniteSets, TLC

\* ------------------------------------------------------------------------
\* Bounds of the model
\* ------------------------------------------------------------------------

\* timesteps is drawn from -1 .. MaxTimesteps
MaxTimesteps == 3

\* a price range has at most MaxPrices prices
MaxPrices == 2

\* a portfolio has at most MaxOptions options
MaxOptions == 2

\* ------------------------------------------------------------------------
\* Exact rational arithmetic (the model of Python / numpy float arithmetic)
\* ------------------------------------------------------------------------

Abs(x) == IF x < 0 THEN -x ELSE x

RECURSIVE GCD(_, _)
GCD(a, b) == IF b = 0 THEN a ELSE GCD(b, a % b)

\* the rational n/d in lowest terms, d # 0
Rat(n, d) ==
    LET g == GCD(Abs(n), Abs(d))
        s == IF d < 0 THEN -1 ELSE 1
    IN  << (s * n) \div g, (s * d) \div g >>

RInt(i) == << i, 1 >>
RZero == << 0, 1 >>
ROne == << 1, 1 >>

\* the operations cancel common factors before they multiply, so that the
\* intermediate products stay small
RAdd(a, b) ==
    LET g == GCD(a[2], b[2])
    IN  Rat(a[1] * (b[2] \div g) + b[1] * (a[2] \div g), (a[2] \div g) * b[2])

RNeg(a) == << -a[1], a[2] >>

RSub(a, b) == RAdd(a, RNeg(b))

RMul(a, b) ==
    LET g1 == GCD(Abs(a[1]), b[2])
        g2 == GCD(Abs(b[1]), a[2])
    IN  << (a[1] \div g1) * (b[1] \div g2), (a[2] \div g2) * (b[2] \div g1) >>

\* a / b, b # 0
RDiv(a, b) ==
    RMul(a, IF b[1] < 0 THEN << -b[2], -b[1] >> ELSE << b[2], b[1] >>)

RLt(a, b) ==
    LET g == GCD(a[2], b[2])
    IN  a[1] * (b[2] \div g) < b[1] * (a[2] \div g)

RLe(a, b) == ~RLt(b, a)

\* Python's max(a, b)
RMax(a, b) == IF RLt(a, b) THEN b ELSE a

\* sum of a sequence of rationals, left to right from 0 (Python's sum())
RECURSIVE RSum(_)
RSum(s) == IF s = << >> THEN RZero
           ELSE RAdd(RSum(SubSeq(s, 1, Len(s) - 1)), s[Len(s)])

\* ------------------------------------------------------------------------
\* VolSurface
\* ------------------------------------------------------------------------

\* VolSurface.__init__: the five fields, stored as given (no validation)
VolSurface(atm_strike, dtes, atm_vols, skews, kurtosis) ==
    [atm_strike |-> atm_strike, dtes |-> dtes, atm_vols |-> atm_vols,
     skews |-> skews, kurtosis |-> kurtosis]

\* np.interp(x, xp, fp) raises ValueError when xp and fp differ in length
\* (or are empty)
InterpRaises(xp, fp) == Len(xp) # Len(fp) \/ Len(xp) = 0

\* np_interp continuing the first and the last segment beyond the knots
np_interp_extrapolating(x, xp, fp) ==
    LET n == Len(xp)
    IN  IF n = 1 THEN fp[1]
        ELSE LET j == IF RLe(x, xp[1]) THEN 1
                      ELSE IF RLe(xp[n], x) THEN n - 1
                      ELSE CHOOSE k \in 1..(n - 1) :
                               RLe(xp[k], x) /\ RLt(x, xp[k + 1])
                 slope == RDiv(RSub(fp[j + 1], fp[j]), RSub(xp[j + 1], xp[j]))
             IN  RAdd(fp[j], RMul(slope, RSub(x, xp[j])))

\* np.interp(x, xp, fp) for non-decreasing knots xp: clamped to fp's ends
\* outside the knots, linear between two neighbouring knots
np_interp(x, xp, fp) ==
    LET n == Len(xp)
    IN  IF RLe(x, xp[1]) THEN fp[1]
        ELSE IF RLe(xp[n], x) THEN fp[n]
        ELSE LET j == CHOOSE k \in 1..(n - 1) :
                          RLe(xp[k], x) /\ RLt(x, xp[k + 1])
                 slope == RDiv(RSub(fp[j + 1], fp[j]), RSub(xp[j + 1], xp[j]))
             IN  RAdd(fp[j], RMul(slope, RSub(x, xp[j])))

\* VolSurface.vol raises when one of its three interpolations does
VolRaises(surface) ==
    \/ InterpRaises(surface.dtes, surface.atm_vols)
    \/ InterpRaises(surface.dtes, surface.skews)
    \/ InterpRaises(surface.dtes, surface.kurtosis)

\* Vol with a negative result raised to 0
VolFloored(surface, strike, dte) ==
    LET atm_vol == np_interp(dte, surface.dtes, surface.atm_vols)
        skew == np_interp(dte, surface.dtes, surface.skews)
        kurt == np_interp(dte, surface.dtes, surface.kurtosis)
        m == RDiv(strike, surface.atm_strike)
        m1 == RSub(m, ROne)
    IN  RMax(RAdd(RAdd(atm_vol, RMul(m1, skew)), RMul(RMul(m1, m1), kurt)),
             RZero)

\* VolSurface.vol(strike, dte)
Vol(surface, strike, dte) ==
    LET atm_vol == np_interp(dte, surface.dtes, surface.atm_vols)
        skew == np_interp(dte, surface.dtes, surface.skews)
        kurt == np_interp(dte, surface.dtes, surface.kurtosis)
        m == RDiv(strike, surface.atm_strike)
        m1 == RSub(m, ROne)
    IN  RAdd(RAdd(atm_vol, RMul(m1, skew)), RMul(RMul(m1, m1), kurt))

\* numpy broadcasting of two 1-d arrays: the shapes are compatible when the
\* lengths are equal or one of them is 1
Broadcastable(a, b) == Len(a) = Len(b) \/ Len(a) = 1 \/ Len(b) = 1

BroadcastLen(a, b) == IF Len(a) = 1 THEN Len(b) ELSE Len(a)

Elt(a, i) == IF Len(a) = 1 THEN a[1] ELSE a[i]

\* Factor dividing by timesteps instead of timesteps - 1
FactorOverTimesteps(step, timesteps) ==
    IF timesteps > 1 THEN Rat(step, timesteps) ELSE ROne

\* Factor with 0 instead of 1 for a single timestep
FactorSingleZero(step, timesteps) ==
    IF timesteps > 1 THEN Rat(step, timesteps - 1) ELSE RZero

\* the interpolation factor of VolSurface.evolve at a 0-based step
Factor(step, timesteps) ==
    IF timesteps > 1 THEN Rat(step, timesteps - 1) ELSE ROne

\* Blend weighting by the square of the factor
BlendSquared(factor, old, new) ==
    [i \in 1..BroadcastLen(old, new) |->
        RAdd(RMul(RSub(ROne, RMul(factor, factor)), Elt(old, i)),
             RMul(RMul(factor, factor), Elt(new, i)))]

\* (1 - factor) * old + factor * new, elementwise with broadcasting
Blend(factor, old, new) ==
    [i \in 1..BroadcastLen(old, new) |->
        RAdd(RMul(RSub(ROne, factor), Elt(old, i)),
             RMul(factor, Elt(new, i)))]

\* the body of VolSurface.evolve's loop raises on the first step when a
\* target array cannot be broadcast against the anchor's
EvolveRaises(surface, timesteps, new_atm_vols, new_skews, new_kurtosis) ==
    /\ timesteps >= 1
    /\ \/ ~Broadcastable(surface.atm_vols, new_atm_vols)
       \/ ~Broadcastable(surface.skews, new_skews)
       \/ ~Broadcastable(surface.kurtosis, new_kurtosis)

\* the surface VolSurface.evolve yields at a 0-based step
EvolveStep(surface, step, timesteps, new_atm_vols, new_skews, new_kurtosis) ==
    LET factor == Factor(step, timesteps)
    IN  VolSurface(surface.atm_strike, surface.dtes,
                   Blend(factor, surface.atm_vols, new_atm_vols),
                   Blend(factor, surface.skews, new_skews),
                   Blend(factor, surface.kurtosis, new_kurtosis))

\* list(VolSurface.evolve(...)): range(timesteps) is empty for timesteps < 1
Evolve(surface, timesteps, new_atm_vols, new_skews, new_kurtosis) ==
    [k \in 1..timesteps |->
        EvolveStep(surface, k - 1, timesteps,
                   new_atm_vols, new_skews, new_kurtosis)]

\* ------------------------------------------------------------------------
\* Stock, Option and the pricing primitives
\* ------------------------------------------------------------------------

\* _risk_free_rate = 0.04, the default of the global rate, as 1/RateDefaultDen
RateDefaultDen == 25

DefaultRate == Rat(1, RateDefaultDen)

\* days per year in Option.__init__: t = dte / 365.0
DaysPerYear == 365

\* the spot Option.greeks falls back to when the option has no underlying
FallbackSpot == 100

\* the one Stock object of a portfolio, and the absent underlying (None)
TheStock == "stock"
NoStock == "None"

\* str.lower() on the flags the model uses
Lower(flag) == IF flag = "C" THEN "c" ELSE IF flag = "P" THEN "p" ELSE flag

\* Option.__init__
Option(flag, strike, dte, pos, underlying) ==
    [flag |-> Lower(flag), strike |-> strike, dte |-> dte,
     t |-> RDiv(dte, RInt(DaysPerYear)), pos |-> pos,
     underlying |-> underlying]

\* Stand-ins for py_vollib's black_scholes, delta, gamma, theta and vega:
\* deterministic functions of (flag, S, K, t, r, sigma), each depending on
\* every argument.
Sign(flag) == IF flag = "c" THEN 1 ELSE -1

black_scholes(flag, S, K, t, r, sigma) ==
    RAdd(RMax(RMul(RInt(Sign(flag)), RSub(S, K)), RZero),
         RMul(t, RAdd(RMul(sigma, S), RMul(r, K))))

bs_delta(flag, S, K, t, r, sigma) ==
    RAdd(RAdd(Rat(Sign(flag), 2), RDiv(RSub(S, K), K)),
         RAdd(RMul(t, sigma), r))

bs_gamma(flag, S, K, t, r, sigma) ==
    RAdd(RAdd(RDiv(S, K), RMul(sigma, r)), RMul(RInt(Sign(flag)), t))

bs_theta(flag, S, K, t, r, sigma) ==
    RSub(RMul(RInt(Sign(flag)), RMul(r, K)), RAdd(RMul(sigma, S), t))

bs_vega(flag, S, K, t, r, sigma) ==
    RAdd(RAdd(RMul(S, t), RMul(RInt(Sign(flag)), sigma)), RMul(r, K))

\* the arguments on which the primitive's behaviour is its own business:
\* zero time to expiry or a non-positive volatility.  There it may raise.
Degenerate(t, sigma) == t = RZero \/ RLe(sigma, RZero)

\* Option.price and Option.greeks raise for certain when vol() does
OptionRaises(opt, surface) == VolRaises(surface)

\* ... and may raise when the primitive gets degenerate arguments
OptionMayRaise(opt, surface) ==
    /\ ~VolRaises(surface)
    /\ Degenerate(opt.t, Vol(surface, opt.strike, opt.dte))

\* Option.price: pos * black_scholes(flag, S, strike, t, rate, vol)
OptionPrice(opt, surface, S, r) ==
    LET vol == Vol(surface, opt.strike, opt.dte)
    IN  RMul(RInt(opt.pos), black_scholes(opt.flag, S, opt.strike, opt.t, r, vol))

GreekKeys == {"delta", "gamma", "theta", "vega"}

\* Option.greeks already multiplying by pos
OptionGreeksTimesPos(opt, surface, price, r) ==
    LET vol == Vol(surface, opt.strike, opt.dte)
        S == IF opt.underlying # NoStock THEN price ELSE RInt(FallbackSpot)
        p == RInt(opt.pos)
    IN  [delta |-> RMul(p, bs_delta(opt.flag, S, opt.strike, opt.t, r, vol)),
         gamma |-> RMul(p, bs_gamma(opt.flag, S, opt.strike, opt.t, r, vol)),
         theta |-> RMul(p, bs_theta(opt.flag, S, opt.strike, opt.t, r, vol)),
         vega |-> RMul(p, bs_vega(opt.flag, S, opt.strike, opt.t, r, vol))]

\* Option.greeks: the four per-contract Greeks, not multiplied by pos
OptionGreeks(opt, surface, price, r) ==
    LET vol == Vol(surface, opt.strike, opt.dte)
        S == IF opt.underlying # NoStock THEN price ELSE RInt(FallbackSpot)
    IN  [delta |-> bs_delta(opt.flag, S, opt.strike, opt.t, r, vol),
         gamma |-> bs_gamma(opt.flag, S, opt.strike, opt.t, r, vol),
         theta |-> bs_theta(opt.flag, S, opt.strike, opt.t, r, vol),
         vega |-> bs_vega(opt.flag, S, opt.strike, opt.t, r, vol)]

\* ------------------------------------------------------------------------
\* Portfolio
\* ------------------------------------------------------------------------

\* Portfolio.__init__
Portfolio(options, stock) == [options |-> options, stock |-> stock, value |-> 0]

\* one pass of portfolio_greeks' inner loop: greeks_total[key] += pos * g[key]
AddGreeks(total, opt, g) ==
    [key \in GreekKeys |-> RAdd(total[key], RMul(RInt(opt.pos), g[key]))]

\* Portfolio.portfolio_greeks: from {key: 0.0}, over the options in order
RECURSIVE GreeksLoop(_, _, _, _)
GreeksLoop(options, surface, price, r) ==
    IF options = << >> THEN [key \in GreekKeys |-> RZero]
    ELSE LET n == Len(options)
         IN  AddGreeks(GreeksLoop(SubSeq(options, 1, n - 1), surface, price, r),
                       options[n],
                       OptionGreeks(options[n], surface, price, r))

PortfolioGreeks(port, surface, price, r) ==
    GreeksLoop(port.options, surface, price, r)

\* PortfolioValue adding up the options' prices whatever the side
PortfolioValueUnsigned(port, surface, price, r) ==
    RSum([i \in 1..Len(port.options) |->
             OptionPrice([port.options[i] EXCEPT !.pos = Abs(@)],
                         surface, price, r)])

\* Portfolio.portfolio_value: sum(opt.price(vol_surface) for opt in options)
PortfolioValue(port, surface, price, r) ==
    RSum([i \in 1..Len(port.options) |->
             OptionPrice(port.options[i], surface, price, r)])

\* a pricing pass that consults the surface whatever the portfolio holds
PortfolioRaisesEager(port, surface) == VolRaises(surface)

\* a pricing pass over the portfolio raises for certain / may raise
PortfolioRaises(port, surface) ==
    \E i \in 1..Len(port.options) : OptionRaises(port.options[i], surface)

PortfolioMayRaise(port, surface) ==
    \E i \in 1..Len(port.options) : OptionMayRaise(port.options[i], surface)

\* evolve_portfolio, line 133: dt = elapsed_time / timesteps raises
\* ZeroDivisionError for timesteps = 0
DtRaises(timesteps) == timesteps = 0

\* Dt spreading the elapsed time as the surface factor does, over
\* timesteps - 1 intervals
DtAlignedWithFactor(elapsed_time, timesteps) ==
    IF timesteps > 1 THEN RDiv(elapsed_time, RInt(timesteps - 1))
    ELSE RDiv(elapsed_time, RInt(timesteps))

Dt(elapsed_time, timesteps) == RDiv(elapsed_time, RInt(timesteps))

\* NewDte decaying by step instead of step + 1
NewDteNoOffset(original_dte, dt, step) ==
    RMax(RSub(original_dte, RMul(dt, RInt(step))), RZero)

\* NewDte without the clamp at zero
NewDteUnclamped(original_dte, dt, step) ==
    RSub(original_dte, RMul(dt, RInt(step + 1)))

\* line 142: new_dte = max(original_dtes[i] - dt * (step + 1), 0)
NewDte(original_dte, dt, step) ==
    RMax(RSub(original_dte, RMul(dt, RInt(step + 1))), RZero)

\* DecayedPortfolio giving each new Option a copy of the Stock
DecayedPortfolioCopiedStock(port, original_dtes, dt, step) ==
    Portfolio([i \in 1..Len(port.options) |->
                  Option(port.options[i].flag, port.options[i].strike,
                         NewDte(original_dtes[i], dt, step),
                         port.options[i].pos, "copy of stock")],
              port.stock)

\* lines 140-152: the portfolio built at a 0-based step
DecayedPortfolio(port, original_dtes, dt, step) ==
    Portfolio([i \in 1..Len(port.options) |->
                  Option(port.options[i].flag, port.options[i].strike,
                         NewDte(original_dtes[i], dt, step),
                         port.options[i].pos, port.options[i].underlying)],
              port.stock)

OriginalDtes(port) == [i \in 1..Len(port.options) |-> port.options[i].dte]

\* everything a fully consumed evolve_portfolio yields, in order
EvolvePortfolio(port, surface, new_atm_vols, new_skews, new_kurtosis, elapsed_time, timesteps) ==
    LET dt == Dt(elapsed_time, timesteps)
        original_dtes == OriginalDtes(port)
        evolved_surfaces == Evolve(surface, timesteps, new_atm_vols,
                                   new_skews, new_kurtosis)
    IN  [k \in 1..Len(evolved_surfaces) |->
            [port |-> DecayedPortfolio(port, original_dtes, dt, k - 1),
             surface |-> evolved_surfaces[k]]]

\* ------------------------------------------------------------------------
\* Inputs the model draws from
\* ------------------------------------------------------------------------

Pct(n) == Rat(n, 100)

\* the Stock's price at construction, and the prices of a price range
InitPrice == RInt(100)

RangePrices == {RInt(90), RInt(110)}

\* every sequence over S of length at most n
SeqsUpTo(S, n) == UNION {[1..k -> S] : k \in 0..n}

PriceRanges == SeqsUpTo(RangePrices, MaxPrices)

\* the options portfolios are built from: a long call, a short put that
\* expires inside the simulated time, and a call already at expiry
OptionPool ==
    << Option("c", RInt(100), RInt(7), 1, TheStock),
       Option("P", RInt(110), RInt(2), -2, TheStock),
       Option("c", RInt(90), RInt(0), 3, TheStock) >>

\* build_portfolio: one Stock, one Option per entry with that Stock as its
\* underlying, and the Portfolio of these options and that Stock
build_portfolio(portfolio_options) ==
    LET underlying == TheStock
        options_list ==
            [i \in 1..Len(portfolio_options) |->
                Option(portfolio_options[i].flag, portfolio_options[i].strike,
                       portfolio_options[i].dte_days, portfolio_options[i].pos,
                       underlying)]
    IN  Portfolio(options_list, underlying)

\* the portfolios of the grid engine: the first n pool options
GridPortfolios ==
    {Portfolio(SubSeq(OptionPool, 1, n), TheStock) : n \in 0..MaxOptions}

\* every portfolio of at most MaxOptions pool options, in any order
AllPortfolios ==
    {Portfolio(o, TheStock) :
        o \in SeqsUpTo({OptionPool[i] : i \in 1..Len(OptionPool)}, MaxOptions)}

\* anchor surfaces: the two-knot surface of the specification's end-to-end
\* scenario, a one-knot surface, and a surface whose atm_vols are one short
\* of its dtes (the constructor accepts it; vol() raises on it)
Anchors ==
    { VolSurface(RInt(100), << RInt(7), RInt(14) >>, << Pct(20), Pct(22) >>,
                 << Pct(-10), Pct(-10) >>, << Pct(5), Pct(5) >>),
      VolSurface(RInt(100), << RInt(7) >>, << Pct(30) >>,
                 << Pct(10) >>, << Pct(0) >>),
      VolSurface(RInt(100), << RInt(7), RInt(14) >>, << Pct(20) >>,
                 << Pct(-10), Pct(-10) >>, << Pct(5), Pct(5) >>) }

\* evolution targets <<new_atm_vols, new_skews, new_kurtosis>>: two-knot and
\* one-knot targets, one of them driving the volatility negative, and a
\* three-knot target no anchor can be broadcast against
Targets ==
    { << << Pct(30), Pct(26) >>, << Pct(-20), Pct(0) >>, << Pct(5), Pct(15) >> >>,
      << << Pct(40) >>, << Pct(20) >>, << Pct(10) >> >>,
      << << Pct(-10) >>, << Pct(10) >>, << Pct(0) >> >>,
      << << Pct(30), Pct(26), Pct(24) >>, << Pct(-20), Pct(0), Pct(0) >>,
         << Pct(5), Pct(15), Pct(5) >> >> }

\* the targets of the grid engine's calls: all but the positive one-knot one
GridTargets == {tg \in Targets : tg[1] # << Pct(40) >>}

ElapsedTimes == {RInt(-2), RInt(0), RInt(3), RInt(10)}

\* the elapsed time of the grid engine's calls
GridElapsedTimes == {RInt(3)}

Timesteps == (-1)..MaxTimesteps

Rates == {DefaultRate, Rat(1, 50)}

\* ------------------------------------------------------------------------
\* State
\* ------------------------------------------------------------------------

VARIABLES
    price,      \* Stock.price of the one shared Stock
    rate,       \* contracts._risk_free_rate
    portfolio,  \* the source Portfolio
    anchor,     \* the anchor VolSurface
    pc,         \* where the current call is: idle, rows, returned, raised
    args,       \* the arguments of the current call
    frame,      \* its locals: op, original_price, init_value, row, matrix
    exc,        \* the exception that left the call, or "none"
    pre,        \* history: Stock.price when the current call was entered
    gen,        \* the generator object of an evolve / evolve_portfolio call
    result      \* what a value or Greeks call returned

vars == << price, rate, portfolio, anchor, pc, args, frame, exc, pre, gen,
           result >>

NoArgs ==
    [new_atm_vols |-> << >>, new_skews |-> << >>, new_kurtosis |-> << >>,
     elapsed_time |-> RZero, timesteps |-> 1, s_range |-> << >>,
     greek |-> "delta"]

NoFrame ==
    [op |-> "none", original_price |-> RZero, init_value |-> RZero,
     row |-> 0, matrix |-> << >>]

NoGen ==
    [kind |-> "none", state |-> "none", dt |-> RZero, original_dtes |-> << >>,
     evolved_surfaces |-> << >>, step |-> 0, yielded |-> << >>,
     evolve_calls |-> 0]

NoResult ==
    [op |-> "none", price |-> RZero, rate |-> RZero, value |-> RZero,
     greeks |-> [key \in {"delta", "gamma", "theta", "vega"} |-> RZero],
     vol_calls |-> 0]

\* ------------------------------------------------------------------------
\* The grid engine: plot_pnl_evolution_3d, plot_greek_evolution_3d and
\* the price sweep of plot_greeks
\* ------------------------------------------------------------------------

\* np.zeros((len(s_range), timesteps)) raises ValueError for timesteps < 0
ZerosRaises(timesteps) == timesteps < 0

\* some step's pricing raises for certain / may raise
PairsRaise(pairs) ==
    \E k \in 1..Len(pairs) : PortfolioRaises(pairs[k].port, pairs[k].surface)

PairsMayRaise(pairs) ==
    \E k \in 1..Len(pairs) : PortfolioMayRaise(pairs[k].port, pairs[k].surface)

\* the pairs one row's evolve_portfolio call yields
RowPairs(a) ==
    EvolvePortfolio(portfolio, anchor, a.new_atm_vols, a.new_skews,
                    a.new_kurtosis, a.elapsed_time, a.timesteps)

\* PnlValues taking the baseline anew at every step, under the step's surface
PnlValuesStepBaseline(pairs, S, init_value) ==
    [k \in 1..Len(pairs) |->
        RSub(PortfolioValue(pairs[k].port, pairs[k].surface, S, rate),
             PortfolioValue(portfolio, pairs[k].surface, S, rate))]

\* PnlValues taking the baseline anew in every row, at the row's price
PnlValuesRowBaseline(pairs, S, init_value) ==
    [k \in 1..Len(pairs) |->
        RSub(PortfolioValue(pairs[k].port, pairs[k].surface, S, rate),
             PortfolioValue(portfolio, anchor, S, rate))]

\* lines 186-195: the PnL of every step of a row, at Stock price S
PnlValues(pairs, S, init_value) ==
    [k \in 1..Len(pairs) |->
        RSub(PortfolioValue(pairs[k].port, pairs[k].surface, S, rate),
             init_value)]

\* GreekValues computed at the price the Stock had when the call was entered
GreekValuesAtEntryPrice(pairs, S, greek) ==
    [k \in 1..Len(pairs) |->
        PortfolioGreeks(pairs[k].port, pairs[k].surface,
                        frame.original_price, rate)[greek]]

\* lines 260-271: the requested Greek of every step of a row
GreekValues(pairs, S, greek) ==
    [k \in 1..Len(pairs) |->
        PortfolioGreeks(pairs[k].port, pairs[k].surface, S, rate)[greek]]

\* the exception one row of a 3d grid call raises for certain, or "none":
\* in the order the code meets them
RowException(a, op) ==
    IF DtRaises(a.timesteps) THEN "ZeroDivisionError"
    ELSE IF EvolveRaises(anchor, a.timesteps, a.new_atm_vols, a.new_skews,
                         a.new_kurtosis) THEN "ValueError"
    ELSE IF PairsRaise(RowPairs(a)) THEN "ValueError"
    ELSE IF op = "greek" /\ a.greek \notin GreekKeys /\ Len(RowPairs(a)) > 0
         THEN "KeyError"
    ELSE "none"

\* the plotting collaborator is handed a P x T grid; what it does with a
\* grid of fewer than two rows or columns is its own business
RenderMayRaise(a) == Len(a.s_range) < 2 \/ a.timesteps < 2

\* plot_pnl_evolution_3d, lines 180-182, up to the first row
CallPnl ==
    /\ pc = "idle"
    /\ \E tg \in GridTargets, e \in GridElapsedTimes, t \in Timesteps, sr \in PriceRanges :
        LET a == [NoArgs EXCEPT !.new_atm_vols = tg[1], !.new_skews = tg[2],
                                !.new_kurtosis = tg[3], !.elapsed_time = e,
                                !.timesteps = t, !.s_range = sr]
        IN  /\ args' = a
            /\ pre' = price
            /\ IF ZerosRaises(t)
               THEN /\ pc' = "raised" /\ exc' = "ValueError"
                    /\ frame' = [NoFrame EXCEPT !.op = "pnl"]
               ELSE IF PortfolioRaises(portfolio, anchor)
               THEN /\ pc' = "raised" /\ exc' = "ValueError"
                    /\ frame' = [NoFrame EXCEPT !.op = "pnl",
                                                !.original_price = price]
               ELSE \/ /\ PortfolioMayRaise(portfolio, anchor)
                       /\ pc' = "raised" /\ exc' = "PricingError"
                       /\ frame' = [NoFrame EXCEPT !.op = "pnl",
                                                   !.original_price = price]
                    \/ /\ pc' = "rows" /\ exc' = "none"
                       /\ frame' = [NoFrame EXCEPT
                             !.op = "pnl", !.original_price = price,
                             !.init_value =
                                 PortfolioValue(portfolio, anchor, price, rate)]
    /\ UNCHANGED << price, rate, portfolio, anchor, gen, result >>

\* plot_greek_evolution_3d, lines 255-256, up to the first row
CallGreek ==
    /\ pc = "idle"
    /\ \E tg \in GridTargets, e \in GridElapsedTimes, t \in Timesteps, sr \in PriceRanges,
          g \in GreekKeys \cup {"rho"} :
        /\ args' = [NoArgs EXCEPT !.new_atm_vols = tg[1], !.new_skews = tg[2],
                                  !.new_kurtosis = tg[3], !.elapsed_time = e,
                                  !.timesteps = t, !.s_range = sr, !.greek = g]
        /\ pre' = price
        /\ IF ZerosRaises(t)
           THEN /\ pc' = "raised" /\ exc' = "ValueError"
                /\ frame' = [NoFrame EXCEPT !.op = "greek"]
           ELSE /\ pc' = "rows" /\ exc' = "none"
                /\ frame' = [NoFrame EXCEPT !.op = "greek",
                                            !.original_price = price]
    /\ UNCHANGED << price, rate, portfolio, anchor, gen, result >>

\* plot_greeks, lines 74-75, up to the first price
CallPlotGreeks ==
    /\ pc = "idle"
    /\ \E sr \in PriceRanges :
        /\ args' = [NoArgs EXCEPT !.s_range = sr]
        /\ pre' = price
        /\ pc' = "rows" /\ exc' = "none"
        /\ frame' = [NoFrame EXCEPT !.op = "plot_greeks",
                                    !.original_price = price]
    /\ UNCHANGED << price, rate, portfolio, anchor, gen, result >>

\* GridRow writing each row's last decayed options back into the source
\* portfolio
GridRowDecaysSource ==
    /\ pc = "rows"
    /\ frame.op \in {"pnl", "greek"}
    /\ frame.row < Len(args.s_range)
    /\ LET S == args.s_range[frame.row + 1]
           x == RowException(args, frame.op)
           pairs == RowPairs(args)
       IN  /\ price' = S
           /\ IF x # "none"
              THEN /\ pc' = "raised" /\ exc' = x
                   /\ UNCHANGED << frame, portfolio >>
              ELSE \/ /\ PairsMayRaise(pairs)
                      /\ pc' = "raised" /\ exc' = "PricingError"
                      /\ UNCHANGED << frame, portfolio >>
                   \/ /\ UNCHANGED << pc, exc >>
                      /\ portfolio' = IF Len(pairs) > 0
                                      THEN pairs[Len(pairs)].port
                                      ELSE portfolio
                      /\ frame' = [frame EXCEPT
                            !.row = @ + 1,
                            !.matrix = Append(@,
                                IF frame.op = "pnl"
                                THEN PnlValues(pairs, S, frame.init_value)
                                ELSE GreekValues(pairs, S, args.greek))]
    /\ UNCHANGED << rate, anchor, args, pre, gen, result >>

\* one row of a 3d grid: lines 184-197 (PnL) and 258-272 (Greek).  The
\* Stock's price is set first; an exception leaves the call from inside
\* the loop.
GridRow ==
    /\ pc = "rows"
    /\ frame.op \in {"pnl", "greek"}
    /\ frame.row < Len(args.s_range)
    /\ LET S == args.s_range[frame.row + 1]
           x == RowException(args, frame.op)
           pairs == RowPairs(args)
       IN  /\ price' = S
           /\ IF x # "none"
              THEN /\ pc' = "raised" /\ exc' = x /\ UNCHANGED frame
              ELSE \/ /\ PairsMayRaise(pairs)
                      /\ pc' = "raised" /\ exc' = "PricingError"
                      /\ UNCHANGED frame
                   \/ /\ UNCHANGED << pc, exc >>
                      /\ frame' = [frame EXCEPT
                            !.row = @ + 1,
                            !.matrix = Append(@,
                                IF frame.op = "pnl"
                                THEN PnlValues(pairs, S, frame.init_value)
                                ELSE GreekValues(pairs, S, args.greek))]
    /\ UNCHANGED << rate, portfolio, anchor, args, pre, gen, result >>

\* one price of plot_greeks: lines 77-83
GreeksRow ==
    /\ pc = "rows"
    /\ frame.op = "plot_greeks"
    /\ frame.row < Len(args.s_range)
    /\ LET S == args.s_range[frame.row + 1]
       IN  /\ price' = S
           /\ IF PortfolioRaises(portfolio, anchor)
              THEN /\ pc' = "raised" /\ exc' = "ValueError" /\ UNCHANGED frame
              ELSE \/ /\ PortfolioMayRaise(portfolio, anchor)
                      /\ pc' = "raised" /\ exc' = "PricingError"
                      /\ UNCHANGED frame
                   \/ /\ UNCHANGED << pc, exc >>
                      /\ frame' = [frame EXCEPT
                            !.row = @ + 1,
                            !.matrix = Append(@,
                                PortfolioGreeks(portfolio, anchor, S, rate))]
    /\ UNCHANGED << rate, portfolio, anchor, args, pre, gen, result >>

\* Finish without the reset of Stock.price
FinishNoReset ==
    /\ pc = "rows"
    /\ frame.row = Len(args.s_range)
    /\ \/ pc' = "returned" /\ exc' = "none"
       \/ /\ RenderMayRaise(args)
          /\ pc' = "raised" /\ exc' = "RenderError"
    /\ UNCHANGED << price, rate, portfolio, anchor, args, frame, pre, gen,
                    result >>

\* after the last row: the reset of line 199 / 274 / 85, then the rendering
Finish ==
    /\ pc = "rows"
    /\ frame.row = Len(args.s_range)
    /\ price' = frame.original_price
    /\ \/ pc' = "returned" /\ exc' = "none"
       \/ /\ RenderMayRaise(args)
          /\ pc' = "raised" /\ exc' = "RenderError"
    /\ UNCHANGED << rate, portfolio, anchor, args, frame, pre, gen, result >>

\* the methods class Portfolio defines
PortfolioMethods ==
    {"portfolio_greeks", "portfolio_value", "plot_greeks", "evolve_portfolio",
     "plot_pnl_evolution_3d", "plot_greek_evolution_3d"}

\* the names module portfolio of the app (src/app/portfolio.py) binds
AppPortfolioNames ==
    {"List", "Tuple", "VolSurface", "create_vol_surface_evolution_video",
     "Option", "Stock", "Portfolio", "build_portfolio", "calc_s_range",
     "plot_value_evolution", "plot_all_greeks"}

\* the names pages/payoff.py imports from module portfolio
PayoffImports == {"build_portfolio", "plot_pnl_evolution", "plot_all_greeks"}

\* plot_value_evolution(portfolio, vol_surface, ..., S_range): the lookup of
\* portfolio.plot_value_evolution_3d comes before anything else, and raises
\* AttributeError when the class has no such method
CallPlotValueEvolution ==
    /\ pc = "idle"
    /\ \E tg \in GridTargets, e \in GridElapsedTimes, t \in Timesteps, sr \in PriceRanges :
        args' = [NoArgs EXCEPT !.new_atm_vols = tg[1], !.new_skews = tg[2],
                               !.new_kurtosis = tg[3], !.elapsed_time = e,
                               !.timesteps = t, !.s_range = sr]
    /\ pre' = price
    /\ IF "plot_value_evolution_3d" \in PortfolioMethods
       THEN /\ pc' = "rows" /\ exc' = "none"
            /\ frame' = [NoFrame EXCEPT !.op = "value",
                                        !.original_price = price]
       ELSE /\ pc' = "raised" /\ exc' = "AttributeError"
            /\ frame' = [NoFrame EXCEPT !.op = "value"]
    /\ UNCHANGED << price, rate, portfolio, anchor, gen, result >>

\* the import statement at the top of pages/payoff.py: ImportError when
\* module portfolio lacks one of the names
ImportPayoffPage ==
    /\ pc = "idle"
    /\ args' = NoArgs
    /\ pre' = price
    /\ frame' = [NoFrame EXCEPT !.op = "payoff import"]
    /\ IF PayoffImports \subseteq AppPortfolioNames
       THEN pc' = "returned" /\ exc' = "none"
       ELSE pc' = "raised" /\ exc' = "ImportError"
    /\ UNCHANGED << price, rate, portfolio, anchor, gen, result >>

\* the caller is back in control and may call again
Resume ==
    /\ pc \in {"returned", "raised"}
    /\ pc' = "idle" /\ exc' = "none"
    /\ args' = NoArgs /\ frame' = NoFrame /\ pre' = price
    /\ UNCHANGED << price, rate, portfolio, anchor, gen, result >>

\* set_risk_free_rate(r), between calls
SetRiskFreeRate ==
    /\ pc = "idle"
    /\ \E r \in Rates : rate' = r
    /\ UNCHANGED << price, portfolio, anchor, pc, args, frame, exc, pre, gen,
                    result >>

Init ==
    /\ price = InitPrice
    /\ rate = DefaultRate
    /\ portfolio \in GridPortfolios
    /\ anchor \in Anchors
    /\ pc = "idle"
    /\ args = NoArgs
    /\ frame = NoFrame
    /\ exc = "none"
    /\ pre = InitPrice
    /\ gen = NoGen
    /\ result = NoResult

Next ==
    \/ CallPnl
    \/ CallGreek
    \/ CallPlotGreeks
    \/ GridRow
    \/ GreeksRow
    \/ Finish
    \/ Resume
    \/ CallPlotValueEvolution
    \/ ImportPayoffPage

Spec == Init /\ [][Next]_vars

\* ------------------------------------------------------------------------
\* The generators: Portfolio.evolve_portfolio and VolSurface.evolve,
\* consumed one next() at a time
\* ------------------------------------------------------------------------

GenIdle == gen.state \in {"none", "done", "raised"}

\* calling a generator function runs none of its body
CallEvolvePortfolio ==
    /\ pc = "idle"
    /\ GenIdle
    /\ \E tg \in Targets, e \in ElapsedTimes, t \in Timesteps :
        args' = [NoArgs EXCEPT !.new_atm_vols = tg[1], !.new_skews = tg[2],
                               !.new_kurtosis = tg[3], !.elapsed_time = e,
                               !.timesteps = t]
    /\ gen' = [NoGen EXCEPT !.kind = "evolve_portfolio", !.state = "created"]
    /\ exc' = "none"
    /\ UNCHANGED << price, rate, portfolio, anchor, pc, frame, pre, result >>

\* YieldPair stopping one step early
YieldPairShort(g) ==
    IF g.step < Len(g.evolved_surfaces) - 1
    THEN [g EXCEPT
            !.state = "suspended",
            !.step = @ + 1,
            !.yielded = Append(@,
                [step |-> g.step,
                 port |-> DecayedPortfolio(portfolio, g.original_dtes, g.dt,
                                           g.step),
                 surface |-> g.evolved_surfaces[g.step + 1]])]
    ELSE [g EXCEPT !.state = "done"]

\* YieldPair drawing each surface from evolve only when its pair is due
YieldPairLazy(g) ==
    IF g.step < args.timesteps
    THEN [g EXCEPT
            !.state = "suspended",
            !.step = @ + 1,
            !.evolved_surfaces = SubSeq(@, 1, g.step + 1),
            !.yielded = Append(@,
                [step |-> g.step,
                 port |-> DecayedPortfolio(portfolio, g.original_dtes, g.dt,
                                           g.step),
                 surface |-> EvolveStep(anchor, g.step, args.timesteps,
                                        args.new_atm_vols, args.new_skews,
                                        args.new_kurtosis)])]
    ELSE [g EXCEPT !.state = "done"]

\* lines 139-153: the rest of the loop from gen.step on, to the next yield
\* or to the end of the generator
YieldPair(g) ==
    IF g.step < Len(g.evolved_surfaces)
    THEN [g EXCEPT
            !.state = "suspended",
            !.step = @ + 1,
            !.yielded = Append(@,
                [step |-> g.step,
                 port |-> DecayedPortfolio(portfolio, g.original_dtes, g.dt,
                                           g.step),
                 surface |-> g.evolved_surfaces[g.step + 1]])]
    ELSE [g EXCEPT !.state = "done"]

\* the generator after a next(): NextPair's three outcomes
AfterNextPair ==
    IF gen.state = "suspended" THEN YieldPair(gen)
    ELSE IF DtRaises(args.timesteps) THEN [gen EXCEPT !.state = "raised"]
    ELSE IF EvolveRaises(anchor, args.timesteps, args.new_atm_vols,
                         args.new_skews, args.new_kurtosis)
    THEN [gen EXCEPT !.state = "raised",
                     !.dt = Dt(args.elapsed_time, args.timesteps),
                     !.original_dtes = OriginalDtes(portfolio),
                     !.evolve_calls = @ + 1]
    ELSE YieldPair([gen EXCEPT
             !.dt = Dt(args.elapsed_time, args.timesteps),
             !.original_dtes = OriginalDtes(portfolio),
             !.evolve_calls = @ + 1,
             !.evolved_surfaces =
                 Evolve(anchor, args.timesteps, args.new_atm_vols,
                        args.new_skews, args.new_kurtosis)])

\* NextPair writing each step's dte into the source portfolio's own options
NextPairInPlace ==
    /\ gen.kind = "evolve_portfolio"
    /\ gen.state \in {"created", "suspended"}
    /\ gen' = AfterNextPair
    /\ exc' = IF gen.state = "created" /\ DtRaises(args.timesteps)
              THEN "ZeroDivisionError"
              ELSE IF gen.state = "created" /\ AfterNextPair.state = "raised"
              THEN "ValueError" ELSE exc
    /\ portfolio' = IF Len(AfterNextPair.yielded) > Len(gen.yielded)
                    THEN AfterNextPair.yielded[Len(AfterNextPair.yielded)].port
                    ELSE portfolio
    /\ UNCHANGED << price, rate, anchor, pc, args, frame, pre, result >>

\* next() on an evolve_portfolio generator.  The first one runs lines
\* 133-137 before it enters the loop.
NextPair ==
    /\ gen.kind = "evolve_portfolio"
    /\ \/ /\ gen.state = "created"
          /\ IF DtRaises(args.timesteps)
             THEN /\ gen' = [gen EXCEPT !.state = "raised"]
                  /\ exc' = "ZeroDivisionError"
             ELSE IF EvolveRaises(anchor, args.timesteps, args.new_atm_vols,
                                  args.new_skews, args.new_kurtosis)
             THEN /\ gen' = [gen EXCEPT
                       !.state = "raised",
                       !.dt = Dt(args.elapsed_time, args.timesteps),
                       !.original_dtes = OriginalDtes(portfolio),
                       !.evolve_calls = @ + 1]
                  /\ exc' = "ValueError"
             ELSE /\ gen' = YieldPair([gen EXCEPT
                       !.dt = Dt(args.elapsed_time, args.timesteps),
                       !.original_dtes = OriginalDtes(portfolio),
                       !.evolve_calls = @ + 1,
                       !.evolved_surfaces =
                           Evolve(anchor, args.timesteps, args.new_atm_vols,
                                  args.new_skews, args.new_kurtosis)])
                  /\ UNCHANGED exc
       \/ /\ gen.state = "suspended"
          /\ gen' = YieldPair(gen)
          /\ UNCHANGED exc
    /\ UNCHANGED << price, rate, portfolio, anchor, pc, args, frame, pre,
                    result >>

CallEvolve ==
    /\ pc = "idle"
    /\ GenIdle
    /\ \E tg \in Targets, t \in Timesteps :
        args' = [NoArgs EXCEPT !.new_atm_vols = tg[1], !.new_skews = tg[2],
                               !.new_kurtosis = tg[3], !.timesteps = t]
    /\ gen' = [NoGen EXCEPT !.kind = "evolve", !.state = "created"]
    /\ exc' = "none"
    /\ UNCHANGED << price, rate, portfolio, anchor, pc, frame, pre, result >>

\* NextSurface writing the blend into the anchor itself and yielding that
NextSurfaceInPlace ==
    /\ gen.kind = "evolve"
    /\ gen.state \in {"created", "suspended"}
    /\ IF gen.step >= args.timesteps
       THEN gen' = [gen EXCEPT !.state = "done"] /\ UNCHANGED << exc, anchor >>
       ELSE IF EvolveRaises(anchor, args.timesteps, args.new_atm_vols,
                            args.new_skews, args.new_kurtosis)
       THEN /\ gen' = [gen EXCEPT !.state = "raised"] /\ exc' = "ValueError"
            /\ UNCHANGED anchor
       ELSE LET s == EvolveStep(anchor, gen.step, args.timesteps,
                                args.new_atm_vols, args.new_skews,
                                args.new_kurtosis)
            IN  /\ anchor' = s
                /\ gen' = [gen EXCEPT
                      !.state = "suspended",
                      !.step = @ + 1,
                      !.yielded = Append(@, [step |-> gen.step, surface |-> s])]
                /\ UNCHANGED exc
    /\ UNCHANGED << price, rate, portfolio, pc, args, frame, pre, result >>

\* next() on a VolSurface.evolve generator: lines 112-120, one pass of the
\* loop from gen.step on
NextSurface ==
    /\ gen.kind = "evolve"
    /\ gen.state \in {"created", "suspended"}
    /\ IF gen.step >= args.timesteps
       THEN gen' = [gen EXCEPT !.state = "done"] /\ UNCHANGED exc
       ELSE IF EvolveRaises(anchor, args.timesteps, args.new_atm_vols,
                            args.new_skews, args.new_kurtosis)
       THEN gen' = [gen EXCEPT !.state = "raised"] /\ exc' = "ValueError"
       ELSE /\ gen' = [gen EXCEPT
                 !.state = "suspended",
                 !.step = @ + 1,
                 !.yielded = Append(@,
                     [step |-> gen.step,
                      surface |-> EvolveStep(anchor, gen.step, args.timesteps,
                                             args.new_atm_vols, args.new_skews,
                                             args.new_kurtosis)])]
            /\ UNCHANGED exc
    /\ UNCHANGED << price, rate, portfolio, anchor, pc, args, frame, pre,
                    result >>

InitEvolve ==
    /\ price = InitPrice
    /\ rate = DefaultRate
    /\ portfolio \in AllPortfolios
    /\ anchor \in Anchors
    /\ pc = "idle"
    /\ args = NoArgs
    /\ frame = NoFrame
    /\ exc = "none"
    /\ pre = InitPrice
    /\ gen = NoGen
    /\ result = NoResult

NextEvolve ==
    \/ CallEvolvePortfolio
    \/ NextPair
    \/ CallEvolve
    \/ NextSurface

SpecEvolve == InitEvolve /\ [][NextEvolve]_vars

\* ------------------------------------------------------------------------
\* Direct calls of Portfolio.portfolio_value and Portfolio.portfolio_greeks
\* ------------------------------------------------------------------------

\* how often a pass over the portfolio calls vol_surface.vol (and then the
\* pricing primitive): once per option, in Option.price or Option.greeks
VolCalls(port) == Len(port.options)

NoGreeks == [key \in GreekKeys |-> RZero]

\* what a call leaves in result; price and rate are the values it read
Raised(calls) ==
    [op |-> "raised", price |-> price, rate |-> rate, value |-> RZero,
     greeks |-> NoGreeks, vol_calls |-> calls]

\* the first option whose pricing raises for certain (0: there is none)
FirstRaising(port, surface) ==
    LET R == {i \in 1..Len(port.options) : OptionRaises(port.options[i], surface)}
    IN  IF R = {} THEN 0 ELSE CHOOSE i \in R : \A j \in R : i <= j

\* Portfolio.portfolio_value(vol_surface), lines 51-61
CallPortfolioValue ==
    /\ pc = "idle"
    /\ IF PortfolioRaises(portfolio, anchor)
       THEN result' = Raised(FirstRaising(portfolio, anchor))
       ELSE \/ /\ PortfolioMayRaise(portfolio, anchor)
               /\ result' = Raised(VolCalls(portfolio))
            \/ result' = [op |-> "value", price |-> price, rate |-> rate,
                          value |-> PortfolioValue(portfolio, anchor, price, rate),
                          greeks |-> NoGreeks,
                          vol_calls |-> VolCalls(portfolio)]
    /\ UNCHANGED << price, rate, portfolio, anchor, pc, args, frame, exc, pre,
                    gen >>

\* Portfolio.portfolio_greeks(vol_surface), lines 44-49
CallPortfolioGreeks ==
    /\ pc = "idle"
    /\ IF PortfolioRaises(portfolio, anchor)
       THEN result' = Raised(FirstRaising(portfolio, anchor))
       ELSE \/ /\ PortfolioMayRaise(portfolio, anchor)
               /\ result' = Raised(VolCalls(portfolio))
            \/ result' = [op |-> "greeks", price |-> price, rate |-> rate,
                          value |-> RZero,
                          greeks |-> PortfolioGreeks(portfolio, anchor, price, rate),
                          vol_calls |-> VolCalls(portfolio)]
    /\ UNCHANGED << price, rate, portfolio, anchor, pc, args, frame, exc, pre,
                    gen >>

\* the simulation's free variable: the caller assigns Stock.price
SetPrice ==
    /\ pc = "idle"
    /\ \E S \in RangePrices \cup {InitPrice} : price' = S
    /\ UNCHANGED << rate, portfolio, anchor, pc, args, frame, exc, pre, gen,
                    result >>

InitValue ==
    /\ price = InitPrice
    /\ rate = DefaultRate
    /\ portfolio \in AllPortfolios
    /\ anchor \in Anchors
    /\ pc = "idle"
    /\ args = NoArgs
    /\ frame = NoFrame
    /\ exc = "none"
    /\ pre = InitPrice
    /\ gen = NoGen
    /\ result = NoResult

NextValue ==
    \/ CallPortfolioValue
    \/ CallPortfolioGreeks
    \/ SetPrice
    \/ SetRiskFreeRate

SpecValue == InitValue /\ [][NextValue]_vars

\* ------------------------------------------------------------------------
\* Properties of the grid engine (checked under Spec)
\* ------------------------------------------------------------------------

Grid3dOps == {"pnl", "greek"}

\* C1: when an exception leaves plot_pnl_evolution_3d or
\* plot_greek_evolution_3d, Stock.price equals the value it had before the
\* call.  The code resets the price only after the loop, so an exception
\* raised inside a row leaves the row's price behind.
C1_PriceRestoredOnException ==
    (pc = "raised" /\ frame.op \in Grid3dOps) => price = pre

\* C2: whenever plot_pnl_evolution_3d, plot_greek_evolution_3d or
\* plot_greeks returns normally, for any price range including the empty
\* one, Stock.price equals the value it had immediately before the call.
C2_PriceRestoredOnReturn ==
    pc = "returned" => price = pre

\* a call has returned after sweeping a non-empty range none of whose
\* prices is the pre-call price
C2_Witness ==
    /\ pc = "returned"
    /\ frame.row = Len(args.s_range)
    /\ frame.row >= 1
    /\ \A i \in 1..Len(args.s_range) : args.s_range[i] # pre
    /\ price = pre

\* ------------------------------------------------------------------------
\* Properties of the generators (checked under SpecEvolve)
\* ------------------------------------------------------------------------

IsEvolvePortfolio == gen.kind = "evolve_portfolio"

IsEvolve == gen.kind = "evolve"

\* each target array can be broadcast against the anchor's array
TargetsFit ==
    /\ Broadcastable(anchor.atm_vols, args.new_atm_vols)
    /\ Broadcastable(anchor.skews, args.new_skews)
    /\ Broadcastable(anchor.kurtosis, args.new_kurtosis)

\* the precondition of evolve: each target array is as long as the anchor's
TargetsSameLength ==
    /\ Len(args.new_atm_vols) = Len(anchor.atm_vols)
    /\ Len(args.new_skews) = Len(anchor.skews)
    /\ Len(args.new_kurtosis) = Len(anchor.kurtosis)

\* the dte of option i in the k-th pair yielded (k = 1 is step 0)
YieldedDte(k, i) == gen.yielded[k].port.options[i].dte

SourceDte(i) == portfolio.options[i].dte

\* C3: for timesteps >= 1, fully iterating evolve_portfolio yields exactly
\* timesteps pairs, and the k-th pair yielded (0-based) is the pair of step
\* k: the step-k decayed portfolio with the step-k evolved surface.  With
\* targets that fit the anchor the iteration does not fail.
C3_YieldsTimestepsPairsInOrder ==
    (IsEvolvePortfolio /\ args.timesteps >= 1) =>
        LET pairs == EvolvePortfolio(portfolio, anchor, args.new_atm_vols,
                                     args.new_skews, args.new_kurtosis,
                                     args.elapsed_time, args.timesteps)
        IN  /\ Len(gen.yielded) <= args.timesteps
            /\ \A k \in 1..Len(gen.yielded) :
                  /\ gen.yielded[k].step = k - 1
                  /\ gen.yielded[k].port = pairs[k].port
                  /\ gen.yielded[k].surface = pairs[k].surface
            /\ gen.state = "done" => Len(gen.yielded) = args.timesteps
            /\ gen.state = "raised" => ~TargetsFit

\* an evolve_portfolio call of MaxTimesteps steps has been iterated to its end
C3_Witness ==
    /\ IsEvolvePortfolio
    /\ gen.state = "done"
    /\ args.timesteps = MaxTimesteps
    /\ Len(gen.yielded) = MaxTimesteps
    /\ Len(portfolio.options) >= 1

\* C4: in the pair yielded for a step, option i has
\* dte = max(original_dte_i - (elapsed_time / timesteps) * (step + 1), 0),
\* with original_dte_i the dte of the source portfolio's i-th option.
C4_DteFromOriginal ==
    IsEvolvePortfolio =>
        \A k \in 1..Len(gen.yielded) :
            /\ Len(gen.yielded[k].port.options) = Len(portfolio.options)
            /\ \A i \in 1..Len(portfolio.options) :
                  YieldedDte(k, i) =
                      RMax(RSub(SourceDte(i),
                                RMul(RDiv(args.elapsed_time,
                                          RInt(args.timesteps)),
                                     RInt((k - 1) + 1))),
                           RZero)

\* a second pair has been yielded in which an option's dte is neither its
\* original dte, nor the first pair's, nor zero
C4_Witness ==
    /\ IsEvolvePortfolio
    /\ Len(gen.yielded) >= 2
    /\ \E i \in 1..Len(portfolio.options) :
          /\ YieldedDte(2, i) # RZero
          /\ YieldedDte(2, i) # SourceDte(i)
          /\ YieldedDte(2, i) # YieldedDte(1, i)

\* C5: for timesteps >= 1, elapsed_time >= 0 and original dtes >= 0, each
\* option's dte over the successive pairs is non-increasing, never negative,
\* and exactly 0 at every step with dt * (step + 1) >= original_dte.
C5_DecayMonotone ==
    ( /\ IsEvolvePortfolio
      /\ args.timesteps >= 1
      /\ RLe(RZero, args.elapsed_time)
      /\ \A i \in 1..Len(portfolio.options) : RLe(RZero, SourceDte(i)) ) =>
        \A k \in 1..Len(gen.yielded) : \A i \in 1..Len(portfolio.options) :
            /\ RLe(RZero, YieldedDte(k, i))
            /\ k > 1 => RLe(YieldedDte(k, i), YieldedDte(k - 1, i))
            /\ RLe(SourceDte(i),
                   RMul(RDiv(args.elapsed_time, RInt(args.timesteps)), RInt(k)))
                  => YieldedDte(k, i) = RZero

\* an option still had time left in the first pair and is at 0 in the second
C5_Witness ==
    /\ IsEvolvePortfolio
    /\ args.timesteps >= 1
    /\ RLe(RZero, args.elapsed_time)
    /\ Len(gen.yielded) >= 2
    /\ \E i \in 1..Len(portfolio.options) :
          /\ RLt(RZero, YieldedDte(1, i))
          /\ YieldedDte(2, i) = RZero

\* C6: an evolve_portfolio call with timesteps < 1 is rejected with an
\* error: once iterated it has raised, and it has yielded nothing.  The
\* code checks nothing: with a negative timesteps the sequence ends
\* silently, empty.
C6_RejectsTimestepsBelowOne ==
    ( /\ IsEvolvePortfolio
      /\ args.timesteps < 1
      /\ gen.state # "created" ) =>
        /\ gen.state = "raised"
        /\ gen.yielded = << >>

\* the parameters of a surface
Params(surface) == << surface.atm_vols, surface.skews, surface.kurtosis >>

TargetParams == << args.new_atm_vols, args.new_skews, args.new_kurtosis >>

\* C7: for evolve with timesteps = N > 1 (targets as long as the anchor's
\* arrays), the first surface yielded has the anchor's atm_vols, skews and
\* kurtosis, and the last one, the N-th, has the targets exactly.
C7_EvolveEndpoints ==
    (IsEvolve /\ args.timesteps > 1 /\ TargetsSameLength) =>
        /\ gen.state # "raised"
        /\ Len(gen.yielded) >= 1 => Params(gen.yielded[1].surface) = Params(anchor)
        /\ gen.state = "done" =>
              /\ Len(gen.yielded) = args.timesteps
              /\ Params(gen.yielded[args.timesteps].surface) = TargetParams

\* an evolve call of MaxTimesteps steps towards targets that differ from the
\* anchor has been iterated to its end
C7_Witness ==
    /\ IsEvolve
    /\ args.timesteps = MaxTimesteps
    /\ TargetsSameLength
    /\ gen.state = "done"
    /\ Params(anchor) # TargetParams
    /\ Len(anchor.atm_vols) = 2

\* C8: evolve with timesteps = 1 (targets as long as the anchor's arrays)
\* yields exactly one surface, whose atm_vols, skews and kurtosis are the
\* targets, not the anchor's.
C8_SingleTimestepIsTarget ==
    (IsEvolve /\ args.timesteps = 1 /\ TargetsSameLength) =>
        /\ gen.state # "raised"
        /\ Len(gen.yielded) <= 1
        /\ gen.state = "done" => Len(gen.yielded) = 1
        /\ Len(gen.yielded) = 1 =>
              Params(gen.yielded[1].surface) = TargetParams

\* a one-step evolve call has been iterated to its end, and its one surface
\* differs from the anchor in every parameter array
C8_Witness ==
    /\ IsEvolve
    /\ args.timesteps = 1
    /\ TargetsSameLength
    /\ gen.state = "done"
    /\ Len(gen.yielded) = 1
    /\ gen.yielded[1].surface.atm_vols # anchor.atm_vols
    /\ gen.yielded[1].surface.skews # anchor.skews
    /\ gen.yielded[1].surface.kurtosis # anchor.kurtosis

\* ------------------------------------------------------------------------
\* Properties of portfolio_value and portfolio_greeks (checked under
\* SpecValue)
\* ------------------------------------------------------------------------

\* the primitive's per-contract Greek of an option at the price and rate the
\* last call read
PerContract(opt, key) ==
    LET vol == Vol(anchor, opt.strike, opt.dte)
        S == result.price
        r == result.rate
    IN  CASE key = "delta" -> bs_delta(opt.flag, S, opt.strike, opt.t, r, vol)
          [] key = "gamma" -> bs_gamma(opt.flag, S, opt.strike, opt.t, r, vol)
          [] key = "theta" -> bs_theta(opt.flag, S, opt.strike, opt.t, r, vol)
          [] key = "vega" -> bs_vega(opt.flag, S, opt.strike, opt.t, r, vol)

\* the Greeks of the portfolio that holds option i of the source alone
SingleGreeks(i) ==
    PortfolioGreeks(Portfolio(<< portfolio.options[i] >>, portfolio.stock),
                    anchor, result.price, result.rate)

\* C9: for each key, portfolio_greeks returns the sum over the options of
\* pos times the per-contract Greek, the position applied exactly once; the
\* Greeks of a two-option portfolio are the elementwise sum of the Greeks of
\* the two single-option portfolios.
C9_GreeksArePositionWeightedSum ==
    result.op = "greeks" =>
        \A key \in GreekKeys :
            /\ result.greeks[key] =
                  RSum([i \in 1..Len(portfolio.options) |->
                           RMul(RInt(portfolio.options[i].pos),
                                PerContract(portfolio.options[i], key))])
            /\ Len(portfolio.options) = 2 =>
                  result.greeks[key] =
                      RAdd(SingleGreeks(1)[key], SingleGreeks(2)[key])

\* portfolio_greeks has returned for a portfolio of two different options,
\* one long and one short, neither of unit position
C9_Witness ==
    /\ result.op = "greeks"
    /\ Len(portfolio.options) = 2
    /\ portfolio.options[1].pos < -1
    /\ portfolio.options[2].pos > 1

\* C10: for a portfolio without options, portfolio_value returns 0 and
\* portfolio_greeks returns 0 for each key, for any surface and price,
\* without a call of the surface or of the pricing primitive (so that a
\* surface on which vol() raises makes no difference).
C10_EmptyPortfolioIsZero ==
    (portfolio.options = << >> /\ result.op # "none") =>
        /\ result.op \in {"value", "greeks"}
        /\ result.value = RZero
        /\ \A key \in GreekKeys : result.greeks[key] = RZero
        /\ result.vol_calls = 0

\* portfolio_greeks has returned for the empty portfolio under a surface on
\* which vol() raises, at a price other than the initial one
C10_Witness ==
    /\ portfolio.options = << >>
    /\ result.op = "greeks"
    /\ VolRaises(anchor)
    /\ result.price # InitPrice

\* ------------------------------------------------------------------------
\* The shared Stock (checked under SpecEvolve)
\* ------------------------------------------------------------------------

\* the session-state entries a portfolio's options were built from
EntriesOf(port) ==
    [i \in 1..Len(port.options) |->
        [flag |-> port.options[i].flag, strike |-> port.options[i].strike,
         dte_days |-> port.options[i].dte, pos |-> port.options[i].pos]]

\* every option of the portfolio references the portfolio's own Stock
SharesStock(port) ==
    \A i \in 1..Len(port.options) : port.options[i].underlying = port.stock

\* C11: the source portfolio is what build_portfolio makes of its entries;
\* in it, and in every Portfolio evolve_portfolio yields from it, each Option
\* references the very Stock object that is the Portfolio's stock field,
\* which is the source's Stock and no copy of it.
C11_OptionsShareTheStock ==
    /\ portfolio = build_portfolio(EntriesOf(portfolio))
    /\ SharesStock(portfolio)
    /\ IsEvolvePortfolio =>
          \A k \in 1..Len(gen.yielded) :
              /\ SharesStock(gen.yielded[k].port)
              /\ gen.yielded[k].port.stock = portfolio.stock

\* two pairs have been yielded from a portfolio of two options
C11_Witness ==
    /\ IsEvolvePortfolio
    /\ Len(gen.yielded) >= 2
    /\ Len(portfolio.options) = 2
    /\ Len(gen.yielded[2].port.options) = 2
    /\ gen.yielded[2].port.options[2].underlying = TheStock

\* ------------------------------------------------------------------------
\* The grids (checked under Spec)
\* ------------------------------------------------------------------------

\* the portfolio and the surface of column j (1-based) of the current call:
\* the step j - 1 decayed portfolio and the step j - 1 evolved surface
StepPortfolio(j) ==
    DecayedPortfolio(portfolio, OriginalDtes(portfolio),
                     RDiv(args.elapsed_time, RInt(args.timesteps)), j - 1)

StepSurface(j) ==
    EvolveStep(anchor, j - 1, args.timesteps, args.new_atm_vols,
               args.new_skews, args.new_kurtosis)

\* the metric of entry [i][j] of the current call's grid
Metric(i, j) ==
    IF frame.op = "greek"
    THEN PortfolioGreeks(StepPortfolio(j), StepSurface(j), args.s_range[i],
                         rate)[args.greek]
    ELSE RSub(PortfolioValue(StepPortfolio(j), StepSurface(j),
                             args.s_range[i], rate),
              frame.init_value)

\* C12: the grid a plot_pnl_evolution_3d or plot_greek_evolution_3d call
\* over P prices and T timesteps has built when it returns has P rows of T
\* entries, and entry [i][j] is the requested metric of the j-th pair of
\* evolve_portfolio at the i-th price of the range.  On the way there the
\* grid has one row per price gone through.
C12_GridIsPricesByTimesteps ==
    frame.op \in Grid3dOps =>
        /\ Len(frame.matrix) = frame.row
        /\ \A i \in 1..Len(frame.matrix) :
              Len(frame.matrix[i]) = args.timesteps
        /\ pc = "returned" =>
              /\ Len(frame.matrix) = Len(args.s_range)
              /\ \A i \in 1..Len(args.s_range) : \A j \in 1..args.timesteps :
                    frame.matrix[i][j] = Metric(i, j)

\* a Greek grid of MaxPrices rows and MaxTimesteps columns has been returned
\* for a portfolio with an option; its rows differ, and so do its columns
C12_Witness ==
    /\ pc = "returned"
    /\ frame.op = "greek"
    /\ Len(portfolio.options) >= 1
    /\ Len(frame.matrix) = MaxPrices
    /\ args.timesteps = MaxTimesteps
    /\ frame.matrix[1] # frame.matrix[MaxPrices]
    /\ frame.matrix[1][1] # frame.matrix[1][MaxTimesteps]

\* the value of column j's portfolio under column j's surface at the i-th
\* price of the range
StepValue(i, j) ==
    PortfolioValue(StepPortfolio(j), StepSurface(j), args.s_range[i], rate)

\* the value of the source portfolio under the anchor surface at the price
\* the Stock had when the call was entered
InitialValue == PortfolioValue(portfolio, anchor, pre, rate)

\* C13: every entry [i][j] of the PnL grid a call returns is the value of
\* the step-j portfolio under the step-j surface at the i-th price, minus
\* the value of the source portfolio under the original surface; what is
\* subtracted is one number, the same in every column of a row (and in
\* every row).
C13_PnlIsValueMinusInitialValue ==
    (frame.op = "pnl" /\ pc \in {"rows", "returned"}) =>
        LET init == InitialValue
        IN  /\ frame.init_value = init
            /\ pc = "returned" =>
                  \A i \in 1..Len(frame.matrix) : \A j \in 1..args.timesteps :
                      frame.matrix[i][j] = RSub(StepValue(i, j), init)

\* a PnL grid of MaxPrices rows and MaxTimesteps columns has been returned
\* for a portfolio whose initial value is not 0 and whose value changes
\* over the steps
C13_Witness ==
    /\ pc = "returned"
    /\ frame.op = "pnl"
    /\ Len(frame.matrix) = MaxPrices
    /\ args.timesteps = MaxTimesteps
    /\ frame.init_value # RZero
    /\ frame.matrix[1][1] # frame.matrix[1][MaxTimesteps]
    /\ StepValue(1, MaxTimesteps) # InitialValue

\* ------------------------------------------------------------------------
\* Configuration errors (checked under SpecEvolve and Spec)
\* ------------------------------------------------------------------------

\* the four parameter sequences of a surface have one length
EqualLengths(surface) ==
    /\ Len(surface.atm_vols) = Len(surface.dtes)
    /\ Len(surface.skews) = Len(surface.dtes)
    /\ Len(surface.kurtosis) = Len(surface.dtes)

\* C14: an evolve or evolve_portfolio call (timesteps >= 1) on a surface
\* whose sequences differ in length, or with a target whose length differs
\* from the anchor's sequence (a length-1 target against a longer anchor
\* included), fails with an error and yields no surface.  The code checks no
\* length: the constructor stores what it is given, and numpy broadcasts a
\* length-1 array against a longer one, so that surfaces are yielded.
C14_MismatchedLengthsRejected ==
    ( /\ IsEvolve \/ IsEvolvePortfolio
      /\ args.timesteps >= 1
      /\ gen.state # "created"
      /\ ~EqualLengths(anchor) \/ ~TargetsSameLength ) =>
        /\ gen.state = "raised"
        /\ gen.yielded = << >>

\* C15: a plot_pnl_evolution_3d or plot_greek_evolution_3d call with
\* timesteps < 2 ends in a raised error, never in a returned result.  The
\* two operations check nothing (only create_vol_surface_evolution_video
\* counts its frames): with timesteps = 1 the rows are computed, and the
\* call returns unless the rendering of the one-column grid fails.
C15_FewerThanTwoStepsRaises ==
    (frame.op \in Grid3dOps /\ pc \in {"returned", "raised"}
        /\ args.timesteps < 2) => pc = "raised"

\* ------------------------------------------------------------------------
\* Direct calls of VolSurface.vol, and the Chain builder
\* ------------------------------------------------------------------------

\* the surface of the specification's end-to-end scenario
ExampleSurface ==
    VolSurface(RInt(100), << RInt(7), RInt(14) >>, << Pct(20), Pct(22) >>,
               << Pct(-10), Pct(-10) >>, << Pct(5), Pct(5) >>)

\* the surfaces vol() is called on: the anchors, a three-knot surface whose
\* knots are unevenly spaced and whose parameters all vary with dte, and a
\* surface steep enough to go negative above the money
VolSurfaces ==
    Anchors \cup
    { VolSurface(RInt(100), << RInt(7), RInt(14), RInt(28) >>,
                 << Pct(20), Pct(22), Pct(30) >>,
                 << Pct(-10), Pct(-20), Pct(10) >>,
                 << Pct(5), Pct(0), Pct(10) >>),
      VolSurface(RInt(100), << RInt(7), RInt(14) >>, << Pct(5), Pct(80) >>,
                 << Pct(-100), Pct(50) >>, << Pct(0), Pct(0) >>) }

VolStrikes == {RInt(90), RInt(100), RInt(110)}

\* days to expiry below, at, between and above the knots
VolDtes == {RInt(3), RInt(7), RInt(10), RInt(14), RInt(21), RInt(30)}

\* VolSurface.vol(strike, dte) called directly; result keeps the arguments
CallVol ==
    /\ pc = "idle"
    /\ \E strike \in VolStrikes, dte \in VolDtes :
        result' = IF VolRaises(anchor)
                  THEN [op |-> "raised", strike |-> strike, dte |-> dte,
                        value |-> RZero]
                  ELSE [op |-> "vol", strike |-> strike, dte |-> dte,
                        value |-> Vol(anchor, strike, dte)]
    /\ UNCHANGED << price, rate, portfolio, anchor, pc, args, frame, exc, pre,
                    gen >>

\* r: float = 0.01, the default of Chain.__init__'s parameter r, as
\* 1/ChainRateDen
ChainRateDen == 100

ChainDefaultRate == Rat(1, ChainRateDen)

\* Python's round(a / b) for integers a >= 0, b > 0: to the nearest integer,
\* a tie to the even one
Round(a, b) ==
    LET q == a \div b
        twice == 2 * (a % b)
    IN  IF twice < b THEN q
        ELSE IF twice > b THEN q + 1
        ELSE IF q % 2 = 0 THEN q ELSE q + 1

SeqMin(s) == CHOOSE x \in {s[i] : i \in 1..Len(s)} : \A i \in 1..Len(s) : x <= s[i]

SeqMax(s) == CHOOSE x \in {s[i] : i \in 1..Len(s)} : \A i \in 1..Len(s) : x >= s[i]

\* np.arange(start, stop, step) for integers, step > 0
Arange(start, stop, step) ==
    IF stop <= start THEN << >>
    ELSE [k \in 1..((stop - start + step - 1) \div step) |->
             start + (k - 1) * step]

\* lines 44-48: the strikes of a chain
ChainStrikes(s_range, strike_width) ==
    Arange(Round(SeqMin(s_range), strike_width) * strike_width,
           Round(SeqMax(s_range), strike_width) * strike_width,
           strike_width)

ChainFlags == << "c", "p" >>

\* one row of the chain's dataframe: lines 49-116
ChainRow(dte, strike, flag, vol_surface, underlying_price, r) ==
    LET K == RInt(strike)
        t == RDiv(dte, RInt(DaysPerYear))
        IV == Vol(vol_surface, K, dte)
    IN  [DTE |-> dte, Strike |-> strike, flag |-> flag,
         underlying |-> underlying_price, t |-> t, IV |-> IV, r |-> r,
         Type |-> IF flag = "c" THEN "Call" ELSE "Put",
         Price |-> black_scholes(flag, underlying_price, K, t, r, IV),
         Delta |-> bs_delta(flag, underlying_price, K, t, r, IV),
         Gamma |-> bs_gamma(flag, underlying_price, K, t, r, IV),
         Theta |-> bs_theta(flag, underlying_price, K, t, r, IV),
         Vega |-> bs_vega(flag, underlying_price, K, t, r, IV)]

\* Chain.__init__: the rows in the order of itertools.product(dtes, strikes,
\* ["c", "p"])
Chain(dtes, vol_surface, underlying_price, s_range, strike_width, r) ==
    LET strikes == ChainStrikes(s_range, strike_width)
        ns == Len(strikes)
    IN  [k \in 1..(Len(dtes) * ns * 2) |->
            ChainRow(dtes[((k - 1) \div (ns * 2)) + 1],
                     strikes[(((k - 1) \div 2) % ns) + 1],
                     ChainFlags[((k - 1) % 2) + 1],
                     vol_surface, underlying_price, r)]

\* the number of rows of the cross product
ChainSize(dtes, s_range, strike_width) ==
    Len(dtes) * Len(ChainStrikes(s_range, strike_width)) * 2

\* the dtes, price ranges and strike widths chains are built for
ChainDtes == { << RInt(7) >>, << RInt(7), RInt(14) >> }

ChainRanges == { << 90, 110 >>, << 98, 103 >>, << 100, 100 >> }

ChainWidths == {5, 20}

\* Chain(dtes, vol_surface, underlying_price, s_range, strike_width), r left
\* at its default as every caller does.  vol() raises on the first row when
\* the surface is malformed; the pricing primitives may raise on degenerate
\* arguments; what pandas makes of an empty cross product is its own
\* business.
BuildChain ==
    /\ pc = "idle"
    /\ \E dtes \in ChainDtes, sr \in ChainRanges, w \in ChainWidths :
        LET n == ChainSize(dtes, sr, w)
            rows == Chain(dtes, anchor, price, sr, w, ChainDefaultRate)
        IN  /\ args' = [dtes |-> dtes, s_range |-> sr, strike_width |-> w]
            /\ pre' = price
            /\ IF n > 0 /\ VolRaises(anchor)
               THEN /\ pc' = "raised" /\ exc' = "ValueError"
                    /\ frame' = [NoFrame EXCEPT !.op = "chain"]
               ELSE \/ /\ \/ n = 0
                          \/ \E k \in 1..n : Degenerate(rows[k].t, rows[k].IV)
                       /\ pc' = "raised" /\ exc' = "PricingError"
                       /\ frame' = [NoFrame EXCEPT !.op = "chain"]
                    \/ /\ pc' = "returned" /\ exc' = "none"
                       /\ frame' = [NoFrame EXCEPT !.op = "chain",
                                                   !.matrix = rows]
    /\ UNCHANGED << price, rate, portfolio, anchor, gen, result >>

InitVol ==
    /\ price = InitPrice
    /\ rate = DefaultRate
    /\ portfolio = build_portfolio(<< >>)
    /\ anchor \in VolSurfaces
    /\ pc = "idle"
    /\ args = NoArgs
    /\ frame = NoFrame
    /\ exc = "none"
    /\ pre = InitPrice
    /\ gen = NoGen
    /\ result = NoResult

NextVol ==
    \/ CallVol
    \/ BuildChain
    \/ SetRiskFreeRate
    \/ Resume

SpecVol == InitVol /\ [][NextVol]_vars

\* ------------------------------------------------------------------------
\* Properties of the rate, of vol() and of the Chain (checked under SpecVol)
\* ------------------------------------------------------------------------

\* C16: every pricing call uses the current value of the one process-wide
\* rate: the r of every row of a chain just built is the rate
\* set_risk_free_rate last set (or its default).  The Chain builder never
\* reads that rate: it prices with its own parameter r, 0.01 by default.
C16_ChainUsesTheGlobalRate ==
    (pc = "returned" /\ frame.op = "chain") =>
        \A k \in 1..Len(frame.matrix) : frame.matrix[k].r = rate

\* the quadratic in moneyness, with the parameters given
Smile(surface, strike, atm_vol, skew, kurt) ==
    LET m == RDiv(strike, surface.atm_strike)
    IN  RAdd(RAdd(atm_vol, RMul(skew, RSub(m, ROne))),
             RMul(kurt, RMul(RSub(m, ROne), RSub(m, ROne))))

\* the quadratic with the parameters of knot j
SmileAtKnot(surface, strike, j) ==
    Smile(surface, strike, surface.atm_vols[j], surface.skews[j],
          surface.kurtosis[j])

\* the point of the straight line through knots j and j + 1 of fp, at x
OnSegment(x, xp, fp, j) ==
    RDiv(RAdd(RMul(RSub(xp[j + 1], x), fp[j]), RMul(RSub(x, xp[j]), fp[j + 1])),
         RSub(xp[j + 1], xp[j]))

\* C17: vol(strike, dte) with dte below the smallest knot is vol(strike,
\* smallest knot), the quadratic with the first knot's parameters; above the
\* largest knot it is vol(strike, largest knot), the quadratic with the last
\* knot's parameters; between two neighbouring knots each of the three
\* parameters lies on the straight line through its values at the two knots.
C17_VolClampedAndPiecewiseLinear ==
    result.op = "vol" =>
        LET n == Len(anchor.dtes)
            d == result.dte
            K == result.strike
        IN  /\ RLt(d, anchor.dtes[1]) =>
                  /\ result.value = Vol(anchor, K, anchor.dtes[1])
                  /\ result.value = SmileAtKnot(anchor, K, 1)
            /\ RLt(anchor.dtes[n], d) =>
                  /\ result.value = Vol(anchor, K, anchor.dtes[n])
                  /\ result.value = SmileAtKnot(anchor, K, n)
            /\ \A j \in 1..(n - 1) :
                  (RLe(anchor.dtes[j], d) /\ RLe(d, anchor.dtes[j + 1])) =>
                      result.value =
                          Smile(anchor, K,
                                OnSegment(d, anchor.dtes, anchor.atm_vols, j),
                                OnSegment(d, anchor.dtes, anchor.skews, j),
                                OnSegment(d, anchor.dtes, anchor.kurtosis, j))

\* vol() has been called off the money with a dte above the last knot of a
\* surface whose last segment is not flat in any parameter
C17_Witness ==
    /\ result.op = "vol"
    /\ Len(anchor.dtes) = 3
    /\ RLt(anchor.dtes[3], result.dte)
    /\ result.strike # anchor.atm_strike
    /\ anchor.atm_vols[2] # anchor.atm_vols[3]
    /\ anchor.skews[2] # anchor.skews[3]
    /\ anchor.kurtosis[2] # anchor.kurtosis[3]
    /\ result.value = SmileAtKnot(anchor, result.strike, 3)

\* C18: vol(strike, dte) is atm_vol + skew * (m - 1) + kurt * (m - 1)^2 with
\* m = strike / atm_strike and the parameters interpolated at dte, negative
\* or not; at strike = atm_strike it is the interpolated ATM vol; on the
\* surface of the end-to-end scenario vol(100, 7) = 0.2 and
\* vol(110, 7) = 0.1905.
C18_VolIsQuadraticInMoneyness ==
    result.op = "vol" =>
        LET d == result.dte
            K == result.strike
            atm_vol == np_interp(d, anchor.dtes, anchor.atm_vols)
            skew == np_interp(d, anchor.dtes, anchor.skews)
            kurt == np_interp(d, anchor.dtes, anchor.kurtosis)
            m == RDiv(K, anchor.atm_strike)
        IN  /\ result.value =
                  RAdd(RAdd(atm_vol, RMul(skew, RSub(m, ROne))),
                       RMul(kurt, RMul(RSub(m, ROne), RSub(m, ROne))))
            /\ K = anchor.atm_strike => result.value = atm_vol
            /\ (anchor = ExampleSurface /\ d = RInt(7)) =>
                  /\ K = RInt(100) => result.value = Rat(2, 10)
                  /\ K = RInt(110) => result.value = Rat(1905, 10000)

\* vol() has returned a negative volatility
C18_Witness ==
    /\ result.op = "vol"
    /\ RLt(result.value, RZero)
    /\ result.strike # anchor.atm_strike

\* ------------------------------------------------------------------------
\* The six metrics (checked under Spec)
\* ------------------------------------------------------------------------

\* C19: the value-evolution entry point plot_value_evolution, called with a
\* well-formed surface, fitting targets, a non-empty price range and
\* timesteps >= 2, returns a result, and the import of the PnL entry point
\* by the payoff page succeeds.  Neither does: Portfolio has no
\* plot_value_evolution_3d, and module portfolio no plot_pnl_evolution.
C19_EveryMetricHasAnOperation ==
    /\ ( /\ frame.op = "value"
         /\ pc \in {"returned", "raised"}
         /\ args.timesteps >= 2
         /\ Len(args.s_range) >= 1
         /\ EqualLengths(anchor)
         /\ TargetsSameLength ) => pc = "returned"
    /\ frame.op = "payoff import" => pc # "raised"

\* ------------------------------------------------------------------------
\* The blend of VolSurface.evolve (checked under SpecEvolve)
\* ------------------------------------------------------------------------

\* (1 - f) * old + f * new
Mix(f, old, new) == RAdd(RMul(RSub(ROne, f), old), RMul(f, new))

\* C20: for timesteps >= 1 (targets as long as the anchor's arrays), evolve
\* yields exactly timesteps surfaces, and in the surface of step i every
\* element of atm_vols, skews and kurtosis is (1 - f) * old + f * new, with
\* old the anchor's element, new the target's, f = i / (timesteps - 1) for
\* timesteps > 1 and f = 1 for timesteps = 1.
C20_EvolveBlendsByTotalStepCount ==
    (IsEvolve /\ args.timesteps >= 1 /\ TargetsSameLength) =>
        /\ gen.state # "raised"
        /\ Len(gen.yielded) <= args.timesteps
        /\ gen.state = "done" => Len(gen.yielded) = args.timesteps
        /\ \A k \in 1..Len(gen.yielded) :
              LET i == k - 1
                  f == IF args.timesteps > 1
                       THEN << i, args.timesteps - 1 >>
                       ELSE << 1, 1 >>
                  s == gen.yielded[k].surface
              IN  /\ gen.yielded[k].step = i
                  /\ Len(s.atm_vols) = Len(anchor.atm_vols)
                  /\ Len(s.skews) = Len(anchor.skews)
                  /\ Len(s.kurtosis) = Len(anchor.kurtosis)
                  /\ \A e \in 1..Len(anchor.atm_vols) :
                        s.atm_vols[e] =
                            Mix(f, anchor.atm_vols[e], args.new_atm_vols[e])
                  /\ \A e \in 1..Len(anchor.skews) :
                        s.skews[e] = Mix(f, anchor.skews[e], args.new_skews[e])
                  /\ \A e \in 1..Len(anchor.kurtosis) :
                        s.kurtosis[e] =
                            Mix(f, anchor.kurtosis[e], args.new_kurtosis[e])

\* a three-step evolve call has been iterated to its end; the surface in the
\* middle is neither the anchor nor the target in any parameter array
C20_Witness ==
    /\ IsEvolve
    /\ args.timesteps = 3
    /\ TargetsSameLength
    /\ gen.state = "done"
    /\ Len(gen.yielded) = 3
    /\ Len(anchor.atm_vols) = 2
    /\ gen.yielded[2].surface.atm_vols \notin {anchor.atm_vols, args.new_atm_vols}
    /\ gen.yielded[2].surface.skews \notin {anchor.skews, args.new_skews}
    /\ gen.yielded[2].surface.kurtosis \notin {anchor.kurtosis, args.new_kurtosis}

\* ------------------------------------------------------------------------
\* What the generators leave alone (checked under SpecEvolve)
\* ------------------------------------------------------------------------

\* the step is a next() on the running generator, not a new call
SameCall == gen'.kind = gen.kind /\ gen.state \in {"created", "suspended"}

\* C21: no step of an evolve call, consumed fully or in part, and no later
\* call changes the anchor surface: its atm_strike, dtes, atm_vols, skews and
\* kurtosis stay what they were at construction.  Every surface yielded has
\* the anchor's atm_strike and dtes, and is an object of its own: a later
\* next() changes none of the surfaces yielded before.
C21_EvolveLeavesAnchor ==
    /\ [](IsEvolve =>
            \A k \in 1..Len(gen.yielded) :
                /\ gen.yielded[k].surface.atm_strike = anchor.atm_strike
                /\ gen.yielded[k].surface.dtes = anchor.dtes)
    /\ [][ /\ anchor' = anchor
           /\ (IsEvolve /\ SameCall) =>
                 /\ Len(gen'.yielded) >= Len(gen.yielded)
                 /\ SubSeq(gen'.yielded, 1, Len(gen.yielded)) = gen.yielded
         ]_vars

\* an evolve call is suspended after its second surface, which differs from
\* the anchor in every parameter array
C21_Witness ==
    /\ IsEvolve
    /\ gen.state = "suspended"
    /\ args.timesteps = MaxTimesteps
    /\ Len(gen.yielded) = 2
    /\ gen.yielded[2].surface.atm_vols # anchor.atm_vols
    /\ gen.yielded[2].surface.skews # anchor.skews
    /\ gen.yielded[2].surface.kurtosis # anchor.kurtosis

\* option i of the k-th pair yielded, and option i of the source
YieldedOption(k, i) == gen.yielded[k].port.options[i]

SourceOption(i) == portfolio.options[i]

\* C22: no step of evolve_portfolio changes the source portfolio: its option
\* sequence and every option's flag, strike, dte, t and pos stay as they
\* were.  Every option of a yielded portfolio has the flag, strike, pos and
\* underlying of the source option at its position, its own dte, and
\* t = dte / 365; a later next() changes no pair yielded before.
C22_EvolvePortfolioLeavesSource ==
    /\ [](IsEvolvePortfolio =>
            \A k \in 1..Len(gen.yielded) :
                /\ Len(gen.yielded[k].port.options) = Len(portfolio.options)
                /\ \A i \in 1..Len(portfolio.options) :
                      /\ YieldedOption(k, i).flag = SourceOption(i).flag
                      /\ YieldedOption(k, i).strike = SourceOption(i).strike
                      /\ YieldedOption(k, i).pos = SourceOption(i).pos
                      /\ YieldedOption(k, i).underlying =
                             SourceOption(i).underlying
                      /\ YieldedOption(k, i).t =
                             RDiv(YieldedOption(k, i).dte, RInt(DaysPerYear)))
    /\ [][ /\ portfolio' = portfolio
           /\ (IsEvolvePortfolio /\ SameCall) =>
                 /\ Len(gen'.yielded) >= Len(gen.yielded)
                 /\ SubSeq(gen'.yielded, 1, Len(gen.yielded)) = gen.yielded
         ]_vars

\* an evolve_portfolio call on two options is suspended after its second
\* pair, in which an option's dte and t are no longer the source's
C22_Witness ==
    /\ IsEvolvePortfolio
    /\ gen.state = "suspended"
    /\ Len(gen.yielded) = 2
    /\ Len(portfolio.options) = 2
    /\ YieldedOption(2, 1).dte # SourceOption(1).dte
    /\ YieldedOption(2, 1).t # SourceOption(1).t
    /\ YieldedOption(2, 1).dte # YieldedOption(1, 1).dte

\* ------------------------------------------------------------------------
\* The value of a portfolio (checked under SpecValue)
\* ------------------------------------------------------------------------

\* the pricing primitive's price of one contract of the option, at the price
\* and the rate the last call read
ContractPrice(opt) ==
    black_scholes(opt.flag, result.price, opt.strike,
                  RDiv(opt.dte, RInt(DaysPerYear)), result.rate,
                  Vol(anchor, opt.strike, opt.dte))

\* C23: portfolio_value(surface) is the sum over the options of pos times
\* the primitive's price at (flag, Stock.price, strike, dte / 365, rate,
\* surface.vol(strike, dte)); an option held short contributes the negated
\* value of the same option held long; nothing but the options contributes,
\* whatever is stored in the Portfolio's value field.
C23_ValueIsPositionWeightedSum ==
    result.op = "value" =>
        /\ result.value =
              RSum([i \in 1..Len(portfolio.options) |->
                       RMul(RInt(portfolio.options[i].pos),
                            ContractPrice(portfolio.options[i]))])
        /\ \A i \in 1..Len(portfolio.options) :
              OptionPrice(portfolio.options[i], anchor, result.price,
                          result.rate) =
                  RNeg(OptionPrice([portfolio.options[i] EXCEPT !.pos = -@],
                                   anchor, result.price, result.rate))
        /\ result.value =
              PortfolioValue([portfolio EXCEPT !.value = 1], anchor,
                             result.price, result.rate)

\* portfolio_value has returned a non-zero value for a portfolio of a short
\* and a long option, at a price and a rate other than the initial ones
C23_Witness ==
    /\ result.op = "value"
    /\ Len(portfolio.options) = 2
    /\ portfolio.options[1].pos < 0
    /\ portfolio.options[2].pos > 0
    /\ result.value # RZero
    /\ result.price # InitPrice
    /\ result.rate # DefaultRate

\* ------------------------------------------------------------------------
\* The order of evolve_portfolio's work (checked under SpecEvolve)
\* ------------------------------------------------------------------------

StrikesUpToMaximum(s_range, strike_width) ==
    {K \in (Round(SeqMin(s_range), strike_width) * strike_width)
           ..(Round(SeqMax(s_range), strike_width) * strike_width) :
        K % strike_width = 0}

\* C25: a chain built from dtes, a price range and a strike width holds
\* exactly one row for every (dte, strike, flag) with flag a call or a put,
\* and no other row, 2 * |dtes| * |strikes| rows in all, each with
\* IV = surface.vol(strike, dte); the strikes are the multiples of
\* strike_width from the rounded minimum of the range up to its rounded
\* maximum.  The code builds the strikes with np.arange, which stops short
\* of the rounded maximum.
C25_ChainIsFullCrossProduct ==
    (pc = "returned" /\ frame.op = "chain") =>
        LET strikes == StrikesUpToMaximum(args.s_range, args.strike_width)
            rows == frame.matrix
        IN  /\ Len(rows) = 2 * Len(args.dtes) * Cardinality(strikes)
            /\ \A d \in 1..Len(args.dtes) : \A K \in strikes :
               \A f \in {"c", "p"} :
                  Cardinality({k \in 1..Len(rows) :
                                  /\ rows[k].DTE = args.dtes[d]
                                  /\ rows[k].Strike = K
                                  /\ rows[k].flag = f}) = 1
            /\ \A k \in 1..Len(rows) :
                  /\ rows[k].Strike \in strikes
                  /\ rows[k].flag \in {"c", "p"}
                  /\ \E d \in 1..Len(args.dtes) : rows[k].DTE = args.dtes[d]
                  /\ rows[k].IV = Vol(anchor, RInt(rows[k].Strike), rows[k].DTE)

\* ------------------------------------------------------------------------
\* The PnL baseline (checked under Spec)
\* ------------------------------------------------------------------------

\* the value of the source portfolio's options as they are, under the anchor
\* surface, at Stock price S
UndecayedValue(S) ==
    RSum([n \in 1..Len(portfolio.options) |->
             RMul(RInt(portfolio.options[n].pos),
                  black_scholes(portfolio.options[n].flag, S,
                                portfolio.options[n].strike,
                                portfolio.options[n].t, rate,
                                Vol(anchor, portfolio.options[n].strike,
                                    portfolio.options[n].dte)))])

\* C26: plot_pnl_evolution_3d computes its baseline in the step that enters
\* the call, in which Stock.price is not written, from the source
\* portfolio's undecayed options at the pre-call price, and never again; the
\* grid returned has that one number subtracted in every row.
C26_BaselineOnceBeforeFirstPrice ==
    /\ []((frame.op = "pnl" /\ pc \in {"rows", "returned"}) =>
            /\ frame.init_value = UndecayedValue(pre)
            /\ pc = "returned" =>
                  \A i \in 1..Len(frame.matrix) : \A j \in 1..args.timesteps :
                      RAdd(frame.matrix[i][j], UndecayedValue(pre)) =
                          StepValue(i, j))
    /\ [][ /\ (pc = "idle" /\ frame'.op = "pnl") => price' = price
           /\ (pc = "rows" /\ frame.op = "pnl" /\ frame'.op = "pnl") =>
                 frame'.init_value = frame.init_value
         ]_vars

\* a PnL grid has been returned none of whose prices is the pre-call price,
\* for a portfolio that is worth something else at each of them
C26_Witness ==
    /\ pc = "returned"
    /\ frame.op = "pnl"
    /\ Len(frame.matrix) = MaxPrices
    /\ args.timesteps >= 2
    /\ frame.init_value # RZero
    /\ \A i \in 1..Len(args.s_range) :
          /\ args.s_range[i] # pre
          /\ UndecayedValue(args.s_range[i]) # frame.init_value

\* ------------------------------------------------------------------------
\* Surface factor against time decay (checked under SpecEvolve)
\* ------------------------------------------------------------------------

\* the time taken off the options of the k-th pair yielded (k = 1 is step
\* 0): (step + 1) * elapsed_time / timesteps
Decay(k) == RDiv(RMul(RInt(k), args.elapsed_time), RInt(args.timesteps))

\* the k-th pair yielded has the surface of factor (k - 1) / (timesteps - 1)
\* and options decayed by Decay(k)
PairFactorAndDecay(k) ==
    LET f == << k - 1, args.timesteps - 1 >>
        s == gen.yielded[k].surface
    IN  /\ \A e \in 1..Len(anchor.atm_vols) :
              s.atm_vols[e] = Mix(f, anchor.atm_vols[e], args.new_atm_vols[e])
        /\ \A e \in 1..Len(anchor.skews) :
              s.skews[e] = Mix(f, anchor.skews[e], args.new_skews[e])
        /\ \A e \in 1..Len(anchor.kurtosis) :
              s.kurtosis[e] = Mix(f, anchor.kurtosis[e], args.new_kurtosis[e])
        /\ \A i \in 1..Len(portfolio.options) :
              YieldedDte(k, i) = RMax(RSub(SourceDte(i), Decay(k)), RZero)
        /\ k = 1 => Params(s) = Params(anchor)
        /\ k = args.timesteps =>
              /\ Params(s) = TargetParams
              /\ \A i \in 1..Len(portfolio.options) :
                    YieldedDte(k, i) =
                        RMax(RSub(SourceDte(i), args.elapsed_time), RZero)

\* an evolve_portfolio call of more than one step, with targets as long as
\* the anchor's arrays
ManySteps == IsEvolvePortfolio /\ args.timesteps > 1 /\ TargetsSameLength

\* C27 as stated: for timesteps = T > 1, the pair of step k has the surface
\* of factor k / (T - 1) and options decayed by (k + 1) * elapsed_time / T;
\* the first pair has the anchor's parameters, the last the targets' with
\* options decayed by elapsed_time; and the decay of no pair is zero.  With
\* elapsed_time = 0 the decay of every pair is zero.
C27_FactorLagsDecay ==
    ManySteps =>
        \A k \in 1..Len(gen.yielded) :
            PairFactorAndDecay(k) /\ Decay(k) # RZero

\* C27, amended: as stated, the decay of no pair being zero whenever
\* elapsed_time is not 0.
C27_FactorLagsDecayAmended ==
    ManySteps =>
        \A k \in 1..Len(gen.yielded) :
            /\ PairFactorAndDecay(k)
            /\ args.elapsed_time # RZero => Decay(k) # RZero

\* a call of MaxTimesteps steps over a positive elapsed time has been
\* iterated to its end; an option with time left has lost some of it in the
\* first pair, whose surface is the anchor's, and more in the last, whose
\* surface is the target's
C27_Witness ==
    /\ ManySteps
    /\ args.timesteps = MaxTimesteps
    /\ gen.state = "done"
    /\ RLt(RZero, args.elapsed_time)
    /\ Params(anchor) # TargetParams
    /\ Params(gen.yielded[1].surface) = Params(anchor)
    /\ Params(gen.yielded[MaxTimesteps].surface) = TargetParams
    /\ \E i \in 1..Len(portfolio.options) :
          /\ RLt(YieldedDte(1, i), SourceDte(i))
          /\ RLt(YieldedDte(MaxTimesteps, i), YieldedDte(1, i))
          /\ RLt(RZero, YieldedDte(MaxTimesteps, i))

\* ------------------------------------------------------------------------
\* A consumer that prices the pairs of evolve_portfolio as they come, with
\* set_risk_free_rate called in between
\* ------------------------------------------------------------------------

\* the consumer creates the generator; frame holds what it has priced
ConsumeEvolvePortfolio ==
    /\ pc = "idle"
    /\ GenIdle
    /\ \E tg \in GridTargets, e \in GridElapsedTimes, t \in Timesteps :
        args' = [NoArgs EXCEPT !.new_atm_vols = tg[1], !.new_skews = tg[2],
                               !.new_kurtosis = tg[3], !.elapsed_time = e,
                               !.timesteps = t]
    /\ gen' = [NoGen EXCEPT !.kind = "evolve_portfolio", !.state = "created"]
    /\ frame' = [NoFrame EXCEPT !.op = "consumer"]
    /\ exc' = "none"
    /\ UNCHANGED << price, rate, portfolio, anchor, pc, pre, result >>

\* what pricing the pair of a step leaves in the consumer's list
Priced(step, r, value) ==
    [step |-> step, rate |-> r, raised |-> FALSE, value |-> value]

PricingRaised(step, r) ==
    [step |-> step, rate |-> r, raised |-> TRUE, value |-> RZero]

\* PricePair with the rate the module had when it was loaded
PricePairAtLoadedRate ==
    /\ gen.kind = "evolve_portfolio"
    /\ gen.state = "suspended"
    /\ frame.op = "consumer"
    /\ frame.row < Len(gen.yielded)
    /\ LET pair == gen.yielded[Len(gen.yielded)]
       IN  IF PortfolioRaises(pair.port, pair.surface)
           THEN /\ exc' = "ValueError"
                /\ frame' = [frame EXCEPT
                      !.row = Len(gen.yielded),
                      !.matrix = Append(@, PricingRaised(pair.step, rate))]
           ELSE \/ /\ PortfolioMayRaise(pair.port, pair.surface)
                   /\ exc' = "PricingError"
                   /\ frame' = [frame EXCEPT
                         !.row = Len(gen.yielded),
                         !.matrix = Append(@, PricingRaised(pair.step, rate))]
                \/ /\ UNCHANGED exc
                   /\ frame' = [frame EXCEPT
                         !.row = Len(gen.yielded),
                         !.matrix = Append(@,
                             Priced(pair.step, rate,
                                    PortfolioValue(pair.port, pair.surface,
                                                   price, DefaultRate)))]
    /\ UNCHANGED << price, rate, portfolio, anchor, pc, args, pre, gen,
                    result >>

\* ptf.portfolio_value(vs) on the pair yielded last: Option.price reads the
\* Stock's price and the global rate when it is called
PricePair ==
    /\ gen.kind = "evolve_portfolio"
    /\ gen.state = "suspended"
    /\ frame.op = "consumer"
    /\ frame.row < Len(gen.yielded)
    /\ LET pair == gen.yielded[Len(gen.yielded)]
       IN  IF PortfolioRaises(pair.port, pair.surface)
           THEN /\ exc' = "ValueError"
                /\ frame' = [frame EXCEPT
                      !.row = Len(gen.yielded),
                      !.matrix = Append(@, PricingRaised(pair.step, rate))]
           ELSE \/ /\ PortfolioMayRaise(pair.port, pair.surface)
                   /\ exc' = "PricingError"
                   /\ frame' = [frame EXCEPT
                         !.row = Len(gen.yielded),
                         !.matrix = Append(@, PricingRaised(pair.step, rate))]
                \/ /\ UNCHANGED exc
                   /\ frame' = [frame EXCEPT
                         !.row = Len(gen.yielded),
                         !.matrix = Append(@,
                             Priced(pair.step, rate,
                                    PortfolioValue(pair.port, pair.surface,
                                                   price, rate)))]
    /\ UNCHANGED << price, rate, portfolio, anchor, pc, args, pre, gen,
                    result >>

InitLazy ==
    /\ price = InitPrice
    /\ rate = DefaultRate
    /\ portfolio \in GridPortfolios
    /\ anchor \in Anchors
    /\ pc = "idle"
    /\ args = NoArgs
    /\ frame = NoFrame
    /\ exc = "none"
    /\ pre = InitPrice
    /\ gen = NoGen
    /\ result = NoResult

NextLazy ==
    \/ ConsumeEvolvePortfolio
    \/ NextPair
    \/ PricePair
    \/ SetRiskFreeRate

SpecLazy == InitLazy /\ [][NextLazy]_vars

\* ------------------------------------------------------------------------
\* The rate over a lazily consumed sequence (checked under SpecLazy)
\* ------------------------------------------------------------------------

\* the step writes the rate as set_risk_free_rate does, and nothing else
OnlySetsRate ==
    /\ rate' \in Rates
    /\ UNCHANGED << price, portfolio, anchor, pc, args, frame, exc, pre, gen,
                    result >>

\* the step prices a pair
PricesAPair == Len(frame'.matrix) = Len(frame.matrix) + 1

\* C28: no step of the generator or of the pricing writes the risk-free
\* rate, only set_risk_free_rate does; every pair is priced with the rate
\* current when it is priced, so that a set_risk_free_rate between two steps
\* of a lazily consumed evolve_portfolio sequence changes the rate of the
\* later steps, and without one all steps are priced with one rate.
C28_PricingReadsTheCurrentRate ==
    /\ [](frame.op = "consumer" =>
            \A n \in 1..Len(frame.matrix) :
                ~frame.matrix[n].raised =>
                    frame.matrix[n].value =
                        PortfolioValue(gen.yielded[frame.matrix[n].step + 1].port,
                                       gen.yielded[frame.matrix[n].step + 1].surface,
                                       price, frame.matrix[n].rate))
    /\ [][ /\ rate' # rate => OnlySetsRate
           /\ (frame.op = "consumer" /\ frame'.op = "consumer"
                  /\ PricesAPair) =>
                 /\ rate' = rate
                 /\ frame'.matrix[Len(frame'.matrix)].rate = rate
                 /\ SubSeq(frame'.matrix, 1, Len(frame.matrix)) = frame.matrix
         ]_vars

\* two steps of one sequence have been priced, the rate set in between: the
\* later one at the new rate, and to another value than the old rate gives
C28_Witness ==
    /\ frame.op = "consumer"
    /\ Len(frame.matrix) >= 2
    /\ ~frame.matrix[1].raised
    /\ ~frame.matrix[2].raised
    /\ frame.matrix[1].rate = DefaultRate
    /\ frame.matrix[2].rate # DefaultRate
    /\ frame.matrix[2].value #
           PortfolioValue(gen.yielded[2].port, gen.yielded[2].surface, price,
                          DefaultRate)

\* ------------------------------------------------------------------------
\* A grid call repeated with the same arguments, as plot_all_greeks
\* (src/app/portfolio.py) calls plot_greek_evolution_3d in a loop
\* ------------------------------------------------------------------------

\* what the caller keeps of a call that returned, and what it saw of the
\* portfolio, the surface, the Stock and the rate on return
Returned ==
    [op |-> "grid", kind |-> frame.op, args |-> args, matrix |-> frame.matrix,
     price |-> price, rate |-> rate, portfolio |-> portfolio,
     anchor |-> anchor]

\* the same method called again with the same arguments, right after it
\* returned: lines 180-182 (PnL) or 255-256 (Greek) once more
CallAgain ==
    /\ pc = "returned"
    /\ frame.op \in {"pnl", "greek"}
    /\ result' = Returned
    /\ pre' = price
    /\ IF ZerosRaises(args.timesteps)
       THEN /\ pc' = "raised" /\ exc' = "ValueError"
            /\ frame' = [NoFrame EXCEPT !.op = frame.op]
       ELSE IF frame.op = "greek"
       THEN /\ pc' = "rows" /\ exc' = "none"
            /\ frame' = [NoFrame EXCEPT !.op = "greek",
                                        !.original_price = price]
       ELSE IF PortfolioRaises(portfolio, anchor)
       THEN /\ pc' = "raised" /\ exc' = "ValueError"
            /\ frame' = [NoFrame EXCEPT !.op = "pnl",
                                        !.original_price = price]
       ELSE \/ /\ PortfolioMayRaise(portfolio, anchor)
               /\ pc' = "raised" /\ exc' = "PricingError"
               /\ frame' = [NoFrame EXCEPT !.op = "pnl",
                                           !.original_price = price]
            \/ /\ pc' = "rows" /\ exc' = "none"
               /\ frame' = [NoFrame EXCEPT
                     !.op = "pnl", !.original_price = price,
                     !.init_value =
                         PortfolioValue(portfolio, anchor, price, rate)]
    /\ UNCHANGED << price, rate, portfolio, anchor, args, gen >>

NextRepeat ==
    \/ CallPnl
    \/ CallGreek
    \/ GridRow
    \/ Finish
    \/ CallAgain

SpecRepeat == Init /\ [][NextRepeat]_vars

\* ------------------------------------------------------------------------
\* Repeating a grid call (checked under SpecRepeat)
\* ------------------------------------------------------------------------

\* C29: a grid call that returns leaves the Stock's price as it was before
\* the call, and no step of it changes the portfolio, the anchor surface or
\* the rate; the same call made again then starts from the same state and
\* returns the same grid.
C29_RepeatedCallGivesSameGrid ==
    /\ []((pc = "returned" /\ frame.op \in {"pnl", "greek"}) => price = pre)
    /\ []((pc = "returned" /\ result.op = "grid") =>
            /\ result.kind = frame.op
            /\ result.args = args
            /\ price = result.price
            /\ rate = result.rate
            /\ portfolio = result.portfolio
            /\ anchor = result.anchor
            /\ frame.matrix = result.matrix)
    /\ [][portfolio' = portfolio /\ anchor' = anchor /\ rate' = rate]_vars

\* a Greek grid over several prices and steps, none of the prices the
\* Stock's own, has been returned a second time
C29_Witness ==
    /\ pc = "returned"
    /\ result.op = "grid"
    /\ frame.op = "greek"
    /\ Len(portfolio.options) >= 1
    /\ Len(frame.matrix) >= 2
    /\ args.timesteps >= 2
    /\ \A i \in 1..Len(args.s_range) : args.s_range[i] # pre
    /\ frame.matrix[1] # frame.matrix[2]
    /\ frame.matrix[1][1] # frame.matrix[1][2]

=============================================================================
